---------------------------- MODULE Spec2Model ----------------------------
(***************************************************************************)
(* A model of the text-discovery sketch of Shared-Minds: the letter grid,  *)
(* the word seeder, the spotlight scanner, the hold-to-capture machine and *)
(* the prefix tree (src/docs/text-discovery/main.js, words.js; the prefs   *)
(* object is in src/docs/ai-collab-input/util.js).                         *)
(*                                                                         *)
(* Scale.  Time is counted in ticks of one frame cap (0.05 s, main.js:537),*)
(* so dt is a whole number of ticks.  A fade fraction is a whole number of *)
(* FadeMax-ths (fadeT = FadeMax is the source's 1).  capture.progress01 is *)
(* a whole number of holdToCaptureSeconds-ths.  Words are sequences of     *)
(* one-letter strings.  Every rng() draw is a choice among the values the  *)
(* expression it feeds can take.                                           *)
(***************************************************************************)
EXTENDS Integers, Sequences, FiniteSets, TLC

VARIABLES
    prefs,       \* the configuration object            (util.js:80-121)
    dictionary,  \* DICTIONARY                          (words.js:4-8)
    trie,        \* world.trie, a heap of trie nodes    (main.js:130)
    trieN,       \* buildTrie: words inserted so far    (words.js:25)
    walk,        \* the last walk of the trie and where it ended
    grid,        \* world.grid: rows, cols              (main.js:119)
    cells,       \* world.cells, by index r * cols + c  (main.js:94-112)
    words,       \* world.words, the active PlacedWords (main.js:114)
    sentence,    \* world.sentence                      (main.js:115)
    capture,     \* world.capture                       (main.js:123-128)
    mouse,       \* world.mouse                         (main.js:129)
    now,         \* performance.now() at the last frame, in ticks
    lastMs,      \* lastMs                              (main.js:535)
    captured,    \* history: every word finalizeCapture was called with
    scan,        \* the candidates list of the last scan (main.js:311-315)
    app,         \* the counterpoint app: state and the hint's display (state.js:6-16)
    pc           \* where a seeding pass and scan taken loop by loop stands (main.js:176-192)

vars == <<prefs, dictionary, trie, trieN, walk, grid, cells, words, sentence,
          capture, mouse, now, lastMs, captured, scan, app, pc>>

worldVars == <<grid, cells, words, sentence, capture, mouse, now, lastMs, captured>>

---------------------------------------------------------------------------
(* Bounds of the model *)

\* the last tick a frame may run at
MaxNow == 4
\* the most ticks between two frames
MaxAdv == 2
\* the longest word list buildTrie is given in SpecTrie
MaxTrieWords == 2
\* the longest word in SpecTrie; a walked string may be one longer
MaxTrieLen == 2
\* the most calls of finalizeCapture in SpecSentence
MaxCommits == 4

(* The source's scales *)

\* fadeT = FadeMax is the source's fadeT = 1
FadeMax == 2
\* the cap of dt, 0.05 s, is one tick
DtCap == 1
\* retries of one seedOneWord call (40 in the source)
Attempts == 2
\* iterations of the minimum-fill loop (20 in the source)
GuardMax == 2
\* cell pitch and the anchor's offset inside a cell
CellW == 2
CellH == 2

Letters == <<"a", "b">>

None == "-"

Min2(a, b) == IF a < b THEN a ELSE b
Max2(a, b) == IF a > b THEN a ELSE b

\* main.js:13 without the clamping
clampNone(v, lo, hi) == v

\* main.js:13
clamp(v, lo, hi) == Max2(lo, Min2(hi, v))

\* randBetween(rng, a, b): the durations a draw can give, in whole ticks
randBetween(a, b) == a .. b

---------------------------------------------------------------------------
(* The prefix tree.  A trie is a heap: a sequence of nodes [t, c], node 1  *)
(* the root; c maps the characters that have a child to the child's place. *)

NewNode == [t |-> FALSE, c |-> << >>]

EmptyTrie == << NewNode >>

HasChild(nodes, node, ch) == ch \in DOMAIN nodes[node].c

RECURSIVE InsertCharsFresh(_, _, _, _)
InsertCharsFresh(nodes, node, w, i) ==
    IF i > Len(w) THEN [nodes EXCEPT ![node].t = TRUE]
    ELSE LET id == Len(nodes) + 1
             grown == Append([nodes EXCEPT ![node].c =
                                 [x \in (DOMAIN @) \cup {w[i]} |->
                                     IF x = w[i] THEN id ELSE @[x]]],
                             NewNode)
         IN  InsertCharsFresh(grown, id, w, i + 1)

\* words.js:26-32: walk w from the root, creating the missing children, and
\* mark the last node complete
RECURSIVE InsertChars(_, _, _, _)
InsertChars(nodes, node, w, i) ==
    IF i > Len(w) THEN [nodes EXCEPT ![node].t = TRUE]
    ELSE IF HasChild(nodes, node, w[i])
         THEN InsertChars(nodes, nodes[node].c[w[i]], w, i + 1)
         ELSE LET id == Len(nodes) + 1
                  grown == Append([nodes EXCEPT ![node].c =
                                      [x \in (DOMAIN @) \cup {w[i]} |->
                                          IF x = w[i] THEN id ELSE @[x]]],
                                  NewNode)
              IN  InsertChars(grown, id, w, i + 1)

InsertWord(nodes, w) == InsertChars(nodes, 1, w, 1)

RECURSIVE InsertWords(_, _, _)
InsertWords(nodes, ws, k) ==
    IF k > Len(ws) THEN nodes ELSE InsertWords(InsertWord(nodes, ws[k]), ws, k + 1)

buildTrie(ws) == InsertWords(EmptyTrie, ws, 1)

\* node = node.c[ch]; 0 stands for the undefined of a missing child
TrieStep(nodes, node, ch) ==
    IF HasChild(nodes, node, ch) THEN nodes[node].c[ch] ELSE 0

\* the walk of main.js:352-358 along a whole string: the node it ends at,
\* 0 when a child is missing
RECURSIVE WalkFrom(_, _, _, _)
WalkFrom(nodes, node, s, i) ==
    IF i > Len(s) THEN node
    ELSE LET nxt == TrieStep(nodes, node, s[i])
         IN  IF nxt = 0 THEN 0 ELSE WalkFrom(nodes, nxt, s, i + 1)

WalkTrie(nodes, s) == WalkFrom(nodes, 1, s, 1)

---------------------------------------------------------------------------
(* The letter grid *)

NumCells == grid.rows * grid.cols

CellIdx == 0 .. (NumCells - 1)

getCellIndex(r, c) == r * grid.cols + c

RowOf(idx) == idx \div grid.cols
ColOf(idx) == idx % grid.cols

\* main.js:104-105 with originX = originY = 0: the jitter-free anchor
CellX(idx) == ColOf(idx) * CellW + CellW \div 2
CellY(idx) == RowOf(idx) * CellH + CellH \div 2

\* randomGridChar / randomChar: any letter
randomGridChar == { Letters[i] : i \in 1 .. Len(Letters) }

\* main.js:158 without the lock test
MayMutateLocked(cell, t) == t >= cell.nextAt

\* main.js:158: random mutation only for unlocked cells whose cycle is over
MayMutate(cell, t) == ~cell.locked /\ t >= cell.nextAt

\* main.js:148-149 with the staged character ignored
SwapCharRandom(cell, ch) == ch

\* main.js:148-149: the staged character, or the random one ch
SwapChar(cell, ch) == IF cell.nextChar # None THEN cell.nextChar ELSE ch

\* main.js:143-163, one cell of updateLetters: the cells the draws can give
UpdateCell(cell, dt, t) ==
    IF cell.fadeDir # 0
    THEN { LET dir == cell.fadeDir
               ft  == clamp(cell.fadeT + dir * ((dt * FadeMax) \div dur), 0, FadeMax)
           IN  IF ft = 0 /\ dir < 0
               THEN [cell EXCEPT !.fadeT = ft,
                                 !.char = SwapChar(cell, ch),
                                 !.nextChar = None,
                                 !.fadeDir = 1]
               ELSE IF ft = FadeMax /\ dir > 0
               THEN [cell EXCEPT !.fadeT = ft, !.fadeDir = 0, !.nextAt = t + nxt]
               ELSE [cell EXCEPT !.fadeT = ft]
           : dur \in randBetween(prefs.fadeDurationRangeSec[1],
                                 prefs.fadeDurationRangeSec[2]),
             ch \in randomGridChar,
             nxt \in randBetween(prefs.fadeDurationRangeSec[1],
                                 prefs.fadeDurationRangeSec[2]) }
    ELSE IF MayMutate(cell, t)
    THEN (IF prefs.changeProbabilityPerCycle > 0
          THEN {[cell EXCEPT !.fadeDir = -1]} ELSE {})
         \cup
         (IF prefs.changeProbabilityPerCycle < 100
          THEN {[cell EXCEPT !.nextAt = t + nxt] :
                   nxt \in randBetween(prefs.fadeDurationRangeSec[1],
                                       prefs.fadeDurationRangeSec[2])}
          ELSE {})
    ELSE {cell}

\* main.js:139-168: the loop over the cells, in index order
RECURSIVE LettersFrom(_, _, _, _)
LettersFrom(cs, k, dt, t) ==
    IF k >= NumCells THEN {cs}
    ELSE UNION { LettersFrom([cs EXCEPT ![k] = o], k + 1, dt, t) :
                     o \in UpdateCell(cs[k], dt, t) }

updateLetters(cs, dt, t) == LettersFrom(cs, 0, dt, t)

---------------------------------------------------------------------------
(* The word seeder *)

InRange(w) == Len(w) >= prefs.minWordLength /\ Len(w) <= prefs.maxWordLength

\* words.js:13-18 without the filter: any word of the dictionary
chooseAnyWord == { dictionary[i] : i \in 1 .. Len(dictionary) }

\* words.js:13-18: the words a draw can give (any word when none fits)
chooseWord ==
    LET filtered == SelectSeq(dictionary, InRange)
        source   == IF Len(filtered) > 0 THEN filtered ELSE dictionary
    IN  { source[i] : i \in 1 .. Len(source) }

\* the cell index of letter i (from 0) of a run from (r, c)
RunIdx(r, c, i, dir) ==
    IF dir = "H" THEN getCellIndex(r, c + i) ELSE getCellIndex(r + i, c)

\* main.js:253-269: every cell of the run exists and is unlocked
placementFree(cs, r, c, len, dir) ==
    \A i \in 0 .. (len - 1) :
        /\ RunIdx(r, c, i, dir) \in DOMAIN cs
        /\ ~cs[RunIdx(r, c, i, dir)].locked

\* main.js:211-219 with the letter popped in at once
StageCellPop(cell, ch) ==
    [cell EXCEPT !.char = ch, !.fadeDir = 0, !.fadeT = FadeMax, !.locked = TRUE]

\* main.js:211-219 (and 235-243): stage letter ch on one cell and lock it
StageCell(cell, ch) ==
    IF ~cell.locked
    THEN [cell EXCEPT !.fadeDir = -1, !.nextChar = ch, !.locked = TRUE]
    ELSE [cell EXCEPT !.char = ch, !.fadeDir = 0, !.fadeT = FadeMax, !.locked = TRUE]

\* main.js:206-222 (and 231-246): the loop over the letters, then the push
PlaceCells(cs, word, r, c, dir) ==
    [idx \in DOMAIN cs |->
        IF \E i \in 0 .. (Len(word) - 1) : RunIdx(r, c, i, dir) = idx
        THEN StageCell(cs[idx],
                       word[1 + CHOOSE i \in 0 .. (Len(word) - 1) :
                                    RunIdx(r, c, i, dir) = idx])
        ELSE cs[idx]]

PlacedWord(word, r, c, dir) ==
    [word |-> word, r |-> r, c |-> c, dir |-> dir,
     cells |-> [i \in 1 .. Len(word) |->
                   IF dir = "H"
                   THEN [r |-> r, c |-> c + i - 1, idx |-> getCellIndex(r, c + i - 1)]
                   ELSE [r |-> r + i - 1, c |-> c, idx |-> getCellIndex(r + i - 1, c)]]]

Placed(cs, ws, word, r, c, dir) ==
    [ok |-> TRUE, cells |-> PlaceCells(cs, word, r, c, dir),
     words |-> Append(ws, PlacedWord(word, r, c, dir))]

\* main.js:249-250 as if the first cell had been staged before the free test
NotPlacedStaged(cs, ws) ==
    [ok |-> FALSE, cells |-> [cs EXCEPT ![0] = StageCell(cs[0], "a")], words |-> ws]

\* main.js:203, 228 and 249-250: return false, nothing touched
NotPlaced(cs, ws) == [ok |-> FALSE, cells |-> cs, words |-> ws]

\* main.js:203 and 228 without the test
TooSmallNever(maxStart) == FALSE

\* main.js:203 and 228: the grid is too small for the word
TooSmall(maxStart) == maxStart < 0

\* main.js:204 and 229 with the start drawn one cell too far
StartRangeWide(maxStart) == 0 .. (maxStart + 1)

\* main.js:204 and 229: Math.floor(rng() * (maxStart + 1)) with rng() in [0, 1)
StartRange(maxStart) == IF maxStart >= 0 THEN 0 .. maxStart ELSE (maxStart + 1) .. 0

\* main.js:197-250: attempt a (from 0) and the ones after it
RECURSIVE SeedAttempts(_, _, _, _)
SeedAttempts(cs, ws, word, a) ==
    IF a >= Attempts THEN {NotPlaced(cs, ws)}
    ELSE LET maxCStart == grid.cols - Len(word)
             maxRStart == grid.rows - Len(word)
             horizontal ==
                 IF TooSmall(maxCStart) THEN {NotPlaced(cs, ws)}
                 ELSE UNION { IF placementFree(cs, r, c, Len(word), "H")
                              THEN {Placed(cs, ws, word, r, c, "H")}
                              ELSE SeedAttempts(cs, ws, word, a + 1) :
                                  r \in 0 .. (grid.rows - 1), c \in StartRange(maxCStart) }
             vertical ==
                 IF TooSmall(maxRStart) THEN {NotPlaced(cs, ws)}
                 ELSE UNION { IF placementFree(cs, r, c, Len(word), "V")
                              THEN {Placed(cs, ws, word, r, c, "V")}
                              ELSE SeedAttempts(cs, ws, word, a + 1) :
                                  c \in 0 .. (grid.cols - 1), r \in StartRange(maxRStart) }
         IN  horizontal \cup vertical

\* main.js:194-251
seedOneWord(cs, ws) == UNION { SeedAttempts(cs, ws, word, 0) : word \in chooseWord }

\* main.js:271-279 with the newest word taken (pop for shift)
dropNewestWord(cs, ws) ==
    IF Len(ws) = 0 THEN [cells |-> cs, words |-> ws]
    ELSE [cells |-> [idx \in DOMAIN cs |->
                        IF \E i \in 1 .. Len(ws[Len(ws)].cells) :
                               ws[Len(ws)].cells[i].idx = idx
                        THEN [cs[idx] EXCEPT !.locked = FALSE] ELSE cs[idx]],
          words |-> SubSeq(ws, 1, Len(ws) - 1)]

\* main.js:271-279
dropOldestWord(cs, ws) ==
    IF Len(ws) = 0 THEN [cells |-> cs, words |-> ws]
    ELSE [cells |-> [idx \in DOMAIN cs |->
                        IF \E i \in 1 .. Len(ws[1].cells) : ws[1].cells[i].idx = idx
                        THEN [cs[idx] EXCEPT !.locked = FALSE] ELSE cs[idx]],
          words |-> Tail(ws)]

\* main.js:178-180; a maximum of 0 counts as none (|| Infinity)
RECURSIVE Evict(_, _)
Evict(cs, ws) ==
    IF prefs.maxActiveWords # 0 /\ Len(ws) > prefs.maxActiveWords
    THEN LET d == dropOldestWord(cs, ws) IN Evict(d.cells, d.words)
    ELSE [cells |-> cs, words |-> ws]

\* main.js:182-185
RECURSIVE MinFill(_, _, _)
MinFill(cs, ws, guard) ==
    IF Len(ws) < prefs.minActiveWords /\ guard < GuardMax
    THEN UNION { IF o.ok THEN MinFill(o.cells, o.words, guard + 1)
                 ELSE {[cells |-> cs, words |-> ws]} :
                     o \in seedOneWord(cs, ws) }
    ELSE {[cells |-> cs, words |-> ws]}

\* main.js:187-191 without the test of the count against the maximum
ExtraSeedAlways(cs, ws, dt) ==
    {[cells |-> cs, words |-> ws]}
    \cup
    (IF prefs.seedWordsPerMinute * dt > 0
     THEN {[cells |-> o.cells, words |-> o.words] : o \in seedOneWord(cs, ws)}
     ELSE {})

\* main.js:187-191: p = clamp(seedWordsPerMinute / 60 * dt, 0, 0.75) is above
\* 0 exactly when seedWordsPerMinute * dt is, and never reaches 1
ExtraSeed(cs, ws, dt) ==
    {[cells |-> cs, words |-> ws]}
    \cup
    (IF (prefs.maxActiveWords = 0 \/ Len(ws) < prefs.maxActiveWords)
        /\ prefs.seedWordsPerMinute * dt > 0
     THEN {[cells |-> o.cells, words |-> o.words] : o \in seedOneWord(cs, ws)}
     ELSE {})

\* main.js:176-192
ensureWordSeeding(cs, ws, dt) ==
    LET e == Evict(cs, ws)
    IN  UNION { ExtraSeed(m.cells, m.words, dt) : m \in MinFill(e.cells, e.words, 0) }

---------------------------------------------------------------------------
(* The spotlight scanner *)

\* the null of "no candidate" and of capture.wordUnderSpot
NoCandidate == [word |-> << >>, r |-> -1, c |-> -1, dir |-> None, cells |-> << >>]

\* main.js:296: the anchor is within the radius of the pointer
inside(idx, m) ==
    (CellX(idx) - m.x) * (CellX(idx) - m.x) + (CellY(idx) - m.y) * (CellY(idx) - m.y)
        <= prefs.spotlightRadiusPx * prefs.spotlightRadiusPx

\* main.js:298-309 without the visibility test
IncludeAnyFade(cs, m) == [idx \in DOMAIN cs |-> inside(idx, m)]

\* main.js:298-309
Include(cs, m) ==
    [idx \in DOMAIN cs |->
        inside(idx, m) /\ clamp(cs[idx].fadeT, 0, FadeMax) >= prefs.detectionAlphaThreshold]

inBounds(r, c) == r >= 0 /\ r < grid.rows /\ c >= 0 /\ c < grid.cols

\* main.js:353-363: the walk from offset i, now at offset j with the trie
\* node reached before it
RECURSIVE SegWalk(_, _, _, _, _, _)
SegWalk(seg, nodes, i, j, node, word) ==
    IF j > Len(seg) THEN << >>
    ELSE LET nxt == TrieStep(nodes, node, seg[j].ch)
         IN  IF nxt = 0 THEN << >>
             ELSE LET w == Append(word, seg[j].ch)
                      found == IF nodes[nxt].t
                               THEN << [word |-> w, r |-> seg[i].r, c |-> seg[i].c,
                                        dir |-> IF seg[i].r = seg[j].r THEN "H" ELSE "V",
                                        cells |-> SubSeq(seg, i, j)] >>
                               ELSE << >>
                  IN  found \o SegWalk(seg, nodes, i, j + 1, nxt, w)

\* main.js:350-365 with the first start offset only
scanSegmentFirstOffset(seg, nodes) == SegWalk(seg, nodes, 1, 1, 1, << >>)

\* main.js:350-365: every start offset in turn
RECURSIVE SegFrom(_, _, _)
SegFrom(seg, nodes, i) ==
    IF i > Len(seg) THEN << >>
    ELSE SegWalk(seg, nodes, i, i, 1, << >>) \o SegFrom(seg, nodes, i + 1)

scanSegmentWithTrie(seg, nodes) == SegFrom(seg, nodes, 1)

\* main.js:336: back to the start of the line
RECURSIVE LineStart(_, _, _, _)
LineStart(r, c, dr, dc) ==
    IF (dr # 0 \/ dc # 0) /\ inBounds(r - dr, c - dc)
    THEN LineStart(r - dr, c - dc, dr, dc) ELSE <<r, c>>

\* main.js:337-347: from (r, c) on, seg the run being built
RECURSIVE LineFrom(_, _, _, _, _, _, _, _)
LineFrom(cs, include, nodes, r, c, dr, dc, seg) ==
    IF inBounds(r, c) /\ include[getCellIndex(r, c)]
    THEN LineFrom(cs, include, nodes, r + dr, c + dc, dr, dc,
                  Append(seg, [r |-> r, c |-> c, idx |-> getCellIndex(r, c),
                               ch |-> cs[getCellIndex(r, c)].char]))
    ELSE (IF Len(seg) > 0 THEN scanSegmentWithTrie(seg, nodes) ELSE << >>)
         \o (IF inBounds(r, c)
             THEN LineFrom(cs, include, nodes, r + dr, c + dc, dr, dc, << >>)
             ELSE << >>)

\* main.js:331-348
scanLine(cs, include, nodes, rStart, cStart, dr, dc) ==
    LET s == LineStart(rStart, cStart, dr, dc)
    IN  LineFrom(cs, include, nodes, s[1], s[2], dr, dc, << >>)

\* main.js:311-315: the rows, top to bottom
RECURSIVE RowsFrom(_, _, _, _)
RowsFrom(cs, include, nodes, rI) ==
    IF rI >= grid.rows THEN << >>
    ELSE scanLine(cs, include, nodes, rI, 0, 0, 1) \o RowsFrom(cs, include, nodes, rI + 1)

Candidates(cs, m) == RowsFrom(cs, Include(cs, m), trie, 0)

\* main.js:318 without the length filter
CandAny(cand) == TRUE

\* main.js:318: minWordLength <= word.length <= maxWordLength
CandInRange(cand) == InRange(cand.word)

\* filtered.sort((a, b) => b.word.length - a.word.length), a stable sort
RECURSIVE SortFrom(_, _)
SortFrom(seq, len) ==
    IF len < 0 THEN << >>
    ELSE SelectSeq(seq, LAMBDA cand : Len(cand.word) = len) \o SortFrom(seq, len - 1)

SortByLength(seq) == SortFrom(seq, NumCells)

\* main.js:317-328 without the sort: the first in-bounds candidate
ChosenFirst(candidates) ==
    LET filtered == SelectSeq(candidates, CandInRange)
    IN  IF Len(filtered) = 0 THEN {NoCandidate} ELSE {filtered[1]}

\* main.js:317-328: the candidates the tie-break draw can return
Chosen(candidates) ==
    LET filtered == SelectSeq(candidates, CandInRange)
    IN  IF Len(filtered) = 0 THEN {NoCandidate}
        ELSE LET sorted == SortByLength(filtered)
                 longestLen == Len(sorted[1].word)
                 longest == SelectSeq(sorted, LAMBDA cand : Len(cand.word) = longestLen)
             IN  { longest[i] : i \in 1 .. Len(longest) }

\* main.js:291-329
wordUnderSpotlight(cs, m) == Chosen(Candidates(cs, m))

---------------------------------------------------------------------------
(* The capture machine *)

\* main.js:367-371: word, ':' and the cell indices joined by '-'.  Letters
\* hold no ':' and indices no '-', so the string is the pair, one to one;
\* the empty sequence is the '' of no candidate
candidateKey(cand) ==
    IF cand = NoCandidate THEN << >>
    ELSE <<cand.word, [i \in 1 .. Len(cand.cells) |-> cand.cells[i].idx]>>

\* world.words.indexOf(wordObj): the place of the same object, 0 for the
\* source's -1.  A PlacedWord is built by seedOneWord and a candidate by
\* scanSegmentWithTrie, so a candidate is never an element of world.words;
\* in the model the two differ by the ch of a candidate's cell parts.
IndexOf(ws, wordObj) ==
    IF \E i \in 1 .. Len(ws) : ws[i] = wordObj
    THEN CHOOSE i \in 1 .. Len(ws) : ws[i] = wordObj /\ \A k \in 1 .. (i - 1) : ws[k] # wordObj
    ELSE 0

\* main.js:412-413 without the shift
PushUncapped(sent, word) == Append(sent, word)

\* main.js:412-413
PushCapped(sent, word) ==
    LET pushed == Append(sent, word)
    IN  IF Len(pushed) > prefs.maxSentenceWords THEN Tail(pushed) ELSE pushed

\* main.js:407-410 without the reset of the staged character
ReleaseCellKeepStaged(cell) == [cell EXCEPT !.locked = FALSE, !.fadeDir = -1]

\* main.js:407-410: one cell of the captured word
ReleaseCell(cell) == [cell EXCEPT !.locked = FALSE, !.fadeDir = -1, !.nextChar = None]

\* main.js:404-417
finalizeCapture(cs, ws, sent, wordObj) ==
    LET idx == IndexOf(ws, wordObj)
    IN  [cells |-> [k \in DOMAIN cs |->
                       IF \E i \in 1 .. Len(wordObj.cells) : wordObj.cells[i].idx = k
                       THEN ReleaseCell(cs[k])
                       ELSE cs[k]],
         sentence |-> PushCapped(sent, wordObj.word),
         words |-> IF idx >= 1
                   THEN SubSeq(ws, 1, idx - 1) \o SubSeq(ws, idx + 1, Len(ws))
                   ELSE ws]

\* main.js:397-400 with only active cleared
IdleCaptureStale(cap) == [cap EXCEPT !.active = FALSE]

\* main.js:397-400
IdleCapture(cap) ==
    [cap EXCEPT !.active = FALSE, !.wordUnderSpot = NoCandidate,
                !.key = << >>, !.progress01 = 0]

\* main.js:387 with the progress accumulated from per-frame deltas
ProgressAccumulated(cap, t) ==
    clamp(cap.progress01 + DtCap, 0, prefs.holdToCaptureSeconds)

\* main.js:387: clamp((now - startMs) / (holdToCaptureSeconds * 1000), 0, 1)
\* in holdToCaptureSeconds-ths
Progress(cap, t) == clamp(t - cap.startMs, 0, prefs.holdToCaptureSeconds)

\* main.js:388 with the threshold at one half
CommitDueEarly(progress) == 2 * progress >= prefs.holdToCaptureSeconds

\* main.js:388: progress01 >= 1
CommitDue(progress) == progress >= prefs.holdToCaptureSeconds

\* main.js:376 with the live scan result always
CurrentLive(cap, detected) == detected

\* main.js:376: the frozen candidate while a hold is active, else the scan's
Current(cap, detected) ==
    IF cap.active /\ cap.wordUnderSpot # NoCandidate THEN cap.wordUnderSpot ELSE detected

\* main.js:378 without the test of the button
HoldGuardAnyButton(m, current) == current # NoCandidate

\* main.js:378: world.mouse.down && current
HoldGuard(m, current) == m.down /\ current # NoCandidate

\* main.js:373-402 once the scan has returned detected, at time t
updateCapture(cs, ws, sent, cap, m, t, detected) ==
    LET current == Current(cap, detected)
        currentKey == candidateKey(current)
        same == [cells |-> cs, words |-> ws, sentence |-> sent, done |-> << >>]
    IN  IF HoldGuard(m, current)
        THEN IF ~cap.active \/ cap.key # currentKey
             THEN same @@ [capture |-> [active |-> TRUE, wordUnderSpot |-> current,
                                        key |-> currentKey, startMs |-> t,
                                        progress01 |-> 0]]
             ELSE IF CommitDue(Progress(cap, t))
                  THEN LET f == finalizeCapture(cs, ws, sent, cap.wordUnderSpot)
                       IN  [cells |-> f.cells, words |-> f.words,
                            sentence |-> f.sentence,
                            done |-> << cap.wordUnderSpot.word >>,
                            capture |-> IdleCapture([cap EXCEPT !.progress01 =
                                                        Progress(cap, t)])]
                  ELSE same @@ [capture |-> [cap EXCEPT !.progress01 = Progress(cap, t)]]
        ELSE same @@ [capture |-> IdleCapture(cap)]

\* main.js:538-540 with the seeding run before the grid update
FrameOutcomesSeedFirst(cs, ws, sent, cap, m, dt, t) ==
    UNION { UNION { { updateCapture(cs1, s.words, sent, cap, m, t, detected) :
                        detected \in wordUnderSpotlight(cs1, m) } :
                    cs1 \in updateLetters(s.cells, dt, t) } :
            s \in ensureWordSeeding(cs, ws, dt) }

\* main.js:538-540: updateLetters, then ensureWordSeeding, then updateCapture
\* (whose first statement is the scan); dt comes from the frame timestamp,
\* t is the reading of performance.now() the callees take
FrameOutcomes(cs, ws, sent, cap, m, dt, t) ==
    UNION { UNION { { updateCapture(s.cells, s.words, sent, cap, m, t, detected) :
                        detected \in wordUnderSpotlight(s.cells, m) } :
                    s \in ensureWordSeeding(cs1, ws, dt) } :
            cs1 \in updateLetters(cs, dt, t) }

---------------------------------------------------------------------------
(* The counterpoint app (docs/ai-collab-input).  Texts are sequences of    *)
(* one-character strings; times are Date.now() in ticks of one second, -1  *)
(* standing for null.  aiText is left out.                                 *)

\* the longest text of the editor
MaxText == 2

\* util.js:67: the cooldown of 2000 ms
Cooldown == 2

\* a letter, a blank and a sentence end
Chars == {"x", " ", "."}

Whitespace == {" "}

Texts == UNION { [1 .. k -> Chars] : k \in 0 .. MaxText }

\* state.js:6-16
createInitialState ==
    [userText |-> << >>, status |-> "idle", currentDial |-> 50,
     lastTypedAt |-> -1, lastSentAt |-> -1, hintVisible |-> TRUE]

RECURSIVE TrimStart(_)
TrimStart(s) ==
    IF s # << >> /\ Head(s) \in Whitespace THEN TrimStart(Tail(s)) ELSE s

RECURSIVE TrimEnd(_)
TrimEnd(s) ==
    IF s # << >> /\ s[Len(s)] \in Whitespace
    THEN TrimEnd(SubSeq(s, 1, Len(s) - 1)) ELSE s

\* String.prototype.trim
Trim(s) == TrimEnd(TrimStart(s))

\* state.js:21-28
updateUserText(state, text, t) ==
    [state EXCEPT !.userText = text, !.lastTypedAt = t,
                  !.hintVisible = (Trim(text) = << >>)]

\* state.js:33-38
updateDial(state, value) == [state EXCEPT !.currentDial = value]

\* state.js:43-49
setLoading(state, t) == [state EXCEPT !.status = "loading", !.lastSentAt = t]

\* state.js:54-60
setAiResponse(state) == [state EXCEPT !.status = "done"]

\* state.js:65-70
setError(state) == [state EXCEPT !.status = "error"]

\* util.js:22-24: /[.!?]$/
endsWithSentence(text) == text # << >> /\ text[Len(text)] = "."

\* util.js:66-76
shouldSend(keystrokesInPara, endedSentence, lastSentAt, t) ==
    LET cooldownOk == lastSentAt = -1 \/ (t - lastSentAt) >= Cooldown
    IN  /\ cooldownOk
        /\ \/ endedSentence
           \/ (keystrokesInPara > 0 /\ keystrokesInPara % 60 = 0)

\* ui.js:21-23 as render calls it (ui.js:64): the hint's style.display
updateHint(visible) == IF visible THEN "block" ELSE "none"

\* ui.js:62-76: the page after render(elements, state)
render(state) ==
    [kind |-> "counterpoint", state |-> state,
     hintDisplay |-> updateHint(state.hintVisible)]

\* the page with its requests: those outstanding, the reset timers pending
\* and the requests sent so far
Track(page, inflight, timers, sent) ==
    page @@ [inflight |-> inflight, timers |-> timers, sent |-> sent]

\* part_001:172 (app.js:95 of the captioner): a request is taken to be
\* under way
Busy(state) == state.status = "loading"

\* part_001:200-205 (app.js:119-124) with the status test left out
TimerResetAlways(state) == [state EXCEPT !.status = "idle"]

\* part_001:200-205 (app.js:119-124): the delayed reset after a failure
TimerReset(state) ==
    IF state.status = "error" THEN [state EXCEPT !.status = "idle"] ELSE state

\* the page after init() has rendered the initial state
AppLoaded == Track(render(createInitialState), 0, 0, 0)

\* the most requests the captioner sends
MaxRequests == 3

\* ai-captioner/state.js:6-12
captionerCreateInitialState == [currentTool |-> "draw", caption |-> "", status |-> "idle"]

\* ai-captioner/state.js:27-32
captionerSetLoading(state) == [state EXCEPT !.status = "loading"]

\* ai-captioner/state.js:37-43
setCaption(state, caption) == [state EXCEPT !.caption = caption, !.status = "done"]

\* ai-captioner/state.js:48-53
captionerSetError(state) == [state EXCEPT !.status = "error"]

\* ai-captioner/ui.js:52-63: the caption shown and whether the loading line
\* is hidden
captionerRender(state) ==
    [kind |-> "captioner", state |-> state, captionText |-> state.caption,
     loadingHidden |-> state.status \notin {"loading", "error"}]

\* the captioner's page after init() has rendered the initial state
CaptionerLoaded == Track(captionerRender(captionerCreateInitialState), 0, 0, 0)

---------------------------------------------------------------------------
(* The sketch as a state machine: frames and pointer events *)

\* util.js:80-121 at the model's scale
Prefs ==
    [gridCols |-> 2,
     fadeDurationRangeSec |-> <<1, 2>>,
     changeProbabilityPerCycle |-> 50,
     holdToCaptureSeconds |-> 2,
     minWordLength |-> 2,
     maxWordLength |-> 2,
     seedWordsPerMinute |-> 120,
     minActiveWords |-> 1,
     maxActiveWords |-> 2,
     detectionAlphaThreshold |-> 1,
     maxSentenceWords |-> 2,
     spotlightRadiusPx |-> 1]

\* words.js:4-8 at the model's scale
DICTIONARY == << <<"a", "b">>, <<"b", "a">> >>

\* the pointer positions the model tries: the centre of the canvas, with
\* both cells of the row in the spotlight, and a corner with none
MousePoints == { [x |-> 2, y |-> 1], [x |-> 0, y |-> 0] }

NoWalk == [str |-> << >>, node |-> -1]

\* no pass is being followed loop by loop
NoPass == [at |-> "idle", guard |-> 0, a |-> 0, word |-> << >>, back |-> "idle",
           r |-> 0, c |-> 0]

NoScan == [done |-> FALSE, candidates |-> << >>, chosen |-> NoCandidate]

\* main.js:74-133, on a canvas rows cells high; the pointer starts at the
\* centre of the canvas
createWorld(rows) ==
    /\ grid = [rows |-> rows, cols |-> prefs.gridCols]
    /\ now = 0
    /\ lastMs = 0
    /\ cells \in [0 .. (grid.rows * grid.cols - 1) ->
                    [char : randomGridChar, fadeT : {FadeMax}, fadeDir : {0},
                     nextAt : { now + d : d \in randBetween(prefs.fadeDurationRangeSec[1],
                                                         prefs.fadeDurationRangeSec[2]) },
                     locked : {FALSE}, nextChar : {None}]]
    /\ words = << >>
    /\ sentence = << >>
    /\ capture = [active |-> FALSE, startMs |-> 0, wordUnderSpot |-> NoCandidate,
                  progress01 |-> 0, key |-> << >>]
    /\ mouse = [x |-> (grid.cols * CellW) \div 2, y |-> (grid.rows * CellH) \div 2,
                down |-> FALSE]
    /\ trie = buildTrie(dictionary)
    /\ trieN = Len(dictionary)

Init ==
    /\ app = AppLoaded
    /\ pc = NoPass
    /\ prefs = Prefs
    /\ dictionary = DICTIONARY
    /\ createWorld(1)
    /\ captured = << >>
    /\ walk = NoWalk
    /\ scan = NoScan

\* main.js:536-544: one animation frame, adv ticks after the last one
Step ==
    \E adv \in 1 .. MaxAdv :
        /\ now + adv <= MaxNow
        /\ LET t  == now + adv
               dt == Min2(DtCap, Max2(0, t - lastMs))
           IN  \E u \in FrameOutcomes(cells, words, sentence, capture, mouse, dt, t) :
                   /\ cells' = u.cells
                   /\ words' = u.words
                   /\ sentence' = u.sentence
                   /\ capture' = u.capture
                   /\ captured' = captured \o u.done
                   /\ now' = t
                   /\ lastMs' = t
        /\ UNCHANGED <<pc, app, prefs, dictionary, trie, trieN, walk, grid, mouse, scan>>

\* main.js:554-558
MouseMove ==
    /\ \E p \in MousePoints : mouse' = [mouse EXCEPT !.x = p.x, !.y = p.y]
    /\ UNCHANGED <<pc, app, prefs, dictionary, trie, trieN, walk, grid, cells, words,
                   sentence, capture, now, lastMs, captured, scan>>

\* main.js:559
MouseDown ==
    /\ mouse' = [mouse EXCEPT !.down = TRUE]
    /\ UNCHANGED <<pc, app, prefs, dictionary, trie, trieN, walk, grid, cells, words,
                   sentence, capture, now, lastMs, captured, scan>>

\* main.js:560
MouseUp ==
    /\ mouse' = [mouse EXCEPT !.down = FALSE]
    /\ UNCHANGED <<pc, app, prefs, dictionary, trie, trieN, walk, grid, cells, words,
                   sentence, capture, now, lastMs, captured, scan>>

\* main.js:561
MouseLeave ==
    /\ mouse' = [mouse EXCEPT !.down = FALSE]
    /\ UNCHANGED <<pc, app, prefs, dictionary, trie, trieN, walk, grid, cells, words,
                   sentence, capture, now, lastMs, captured, scan>>

Next == Step \/ MouseMove \/ MouseDown \/ MouseUp \/ MouseLeave

Spec == Init /\ [][Next]_vars

---------------------------------------------------------------------------
(* What the claims speak of *)

\* the step is an animation frame (every frame advances the clock)
Frame == now' # now

\* the frame called finalizeCapture
Commit == Frame /\ captured' # captured

CellSet(w) == { w.cells[i].idx : i \in 1 .. Len(w.cells) }

IdxSeq(w) == [i \in 1 .. Len(w.cells) |-> w.cells[i].idx]

\* a candidate and a PlacedWord are the same word over the same cells
Coincides(placed, cand) == placed.word = cand.word /\ IdxSeq(placed) = IdxSeq(cand)

\* the identity keys among the in-bounds candidates of a scan of cs under m
LiveKeys(cs, m) ==
    LET found == SelectSeq(Candidates(cs, m), CandInRange)
    IN  { candidateKey(found[i]) : i \in 1 .. Len(found) }

\* a cell of the held candidate shows another character than when the hold
\* was frozen
LetterChanged(cs, cand) ==
    \E i \in 1 .. Len(cand.cells) : cs[cand.cells[i].idx].char # cand.cells[i].ch

\* a cell of the held candidate is outside the spotlight
OutOfSpotlight(cand, m) ==
    \E i \in 1 .. Len(cand.cells) : ~inside(cand.cells[i].idx, m)

---------------------------------------------------------------------------
(* C1 *)

\* C1: placement exclusivity -- in every reachable state any two distinct
\* PlacedWords of world.words have disjoint sets of cell indices.
\* Stated as the claim states it; the sketch violates it (see C2).
C1_PlacementExclusive ==
    \A i, j \in 1 .. Len(words) :
        i # j => CellSet(words[i]) \cap CellSet(words[j]) = {}

(* C2 *)

\* C2: when a hold completes on a candidate that coincides with an active
\* PlacedWord (same word, same cells), the commit removes that PlacedWord:
\* after the committing frame no word of world.words coincides with the
\* committed candidate.  Stated as the claim states it; the sketch violates it.
C2_CommitRemovesPlacedWord ==
    [][Commit =>
         \A i \in 1 .. Len(words') : ~Coincides(words'[i], capture.wordUnderSpot)]_vars

(* C3 *)

\* C3: capture reset on letter change -- if during an active hold with the
\* button down a cell of the held candidate changes its character, so that
\* the live scan yields no candidate with the held key, then after that
\* frame's updateCapture the progress is 0 and the old word was not committed.
\* Stated as the claim states it; the sketch violates it.
C3_ResetOnLetterChange ==
    [][(/\ Frame
        /\ capture.active
        /\ mouse.down
        /\ LetterChanged(cells', capture.wordUnderSpot)
        /\ capture.key \notin LiveKeys(cells', mouse))
       => (capture'.progress01 = 0 /\ captured' = captured)]_vars

(* C4 *)

\* C4: capture reset on pointer leaving -- if during an active hold with the
\* button down the pointer has moved so that the held candidate's cells are
\* no longer inside the spotlight (the live scan yields no candidate with
\* the held key), then after that frame the machine is Idle with progress 0
\* and the held word was not committed.
\* Stated as the claim states it; the sketch violates it.
C4_ResetOnPointerLeaving ==
    [][(/\ Frame
        /\ capture.active
        /\ mouse.down
        /\ OutOfSpotlight(capture.wordUnderSpot, mouse)
        /\ capture.key \notin LiveKeys(cells', mouse))
       => (/\ ~capture'.active
           /\ capture'.progress01 = 0
           /\ captured' = captured)]_vars

(* C5 *)

\* C5: capture stability -- in a frame that finds a hold active and the
\* button down, if the time since the hold started is below the hold
\* duration then nothing is committed and the machine is still Holding with
\* progress below 1; if it has reached the hold duration then exactly one
\* word, the held candidate's, is committed and the hold is over (so this
\* is the first such frame of the hold).
C5_CaptureStability ==
    [][(Frame /\ capture.active /\ mouse.down)
       => IF now' - capture.startMs < prefs.holdToCaptureSeconds
          THEN /\ captured' = captured
               /\ capture'.active
               /\ capture'.wordUnderSpot = capture.wordUnderSpot
               /\ capture'.progress01 < prefs.holdToCaptureSeconds
          ELSE /\ captured' = Append(captured, capture.wordUnderSpot.word)
               /\ ~capture'.active]_vars

\* a hold was committed in the frame in which its time reached the hold
\* duration, the button still down
C5_Witness ==
    /\ Len(captured) = 1
    /\ ~capture.active
    /\ mouse.down
    /\ now = capture.startMs + prefs.holdToCaptureSeconds

(* C6 *)

\* C6: release resets the hold -- after a frame that ran with the button up
\* the capture is inactive, has no frozen candidate and progress 0; a hold
\* that becomes active starts with the start time of that frame and progress
\* 0; and a commit only happens for a hold whose own start time lies a full
\* hold duration back, so time held before a release never counts.
C6_ReleaseResets ==
    [][Frame =>
         /\ ~mouse.down =>
                /\ ~capture'.active
                /\ capture'.wordUnderSpot = NoCandidate
                /\ capture'.progress01 = 0
         /\ (~capture.active /\ capture'.active) =>
                /\ capture'.startMs = now'
                /\ capture'.progress01 = 0
         /\ (capture.active /\ capture'.active) => capture'.startMs = capture.startMs
         /\ Commit =>
                /\ capture.active
                /\ now' - capture.startMs >= prefs.holdToCaptureSeconds]_vars

\* a hold was started and then ended by a frame with the button up: nothing
\* was committed, the start time of the abandoned hold is still recorded
C6_Witness ==
    /\ ~mouse.down
    /\ ~capture.active
    /\ capture.startMs >= 1
    /\ capture.progress01 = 0
    /\ captured = << >>
    /\ now > capture.startMs

---------------------------------------------------------------------------
(* The sentence under any sequence of commits *)

\* a candidate as scanSegmentWithTrie builds it for word w read from (r, c)
\* along a row
CandidateAt(w, r, c) ==
    [word |-> w, r |-> r, c |-> c, dir |-> "H",
     cells |-> [i \in 1 .. Len(w) |->
                   [r |-> r, c |-> c + i - 1, idx |-> getCellIndex(r, c + i - 1),
                    ch |-> w[i]]]]

\* main.js:389-393: a commit of any candidate a row of the grid can hold,
\* whatever hold led to it
FinalizeAny ==
    /\ Len(captured) < MaxCommits
    /\ \E k \in 1 .. Len(dictionary), r \in 0 .. (grid.rows - 1),
          c \in 0 .. (grid.cols - 1) :
          /\ c + Len(dictionary[k]) <= grid.cols
          /\ LET cand == CandidateAt(dictionary[k], r, c)
                 f == finalizeCapture(cells, words, sentence, cand)
             IN  /\ cells' = f.cells
                 /\ words' = f.words
                 /\ sentence' = f.sentence
                 /\ captured' = Append(captured, cand.word)
                 /\ capture' = IdleCapture(capture)
    /\ UNCHANGED <<pc, app, prefs, dictionary, trie, trieN, walk, grid, mouse, now, lastMs, scan>>

SpecSentence == Init /\ [][FinalizeAny]_vars

\* the last n entries of a sequence
LastN(seq, n) == SubSeq(seq, Len(seq) - n + 1, Len(seq))

(* C7 *)

\* C7: sentence capping -- after any sequence of n commits the sentence has
\* length min(n, maxSentenceWords) and holds exactly the most recent
\* min(n, maxSentenceWords) captured words in capture order; an entry is only
\* ever appended at the end or evicted from the front.
C7_SentenceCapping ==
    /\ [](/\ Len(sentence) = Min2(Len(captured), prefs.maxSentenceWords)
          /\ sentence = LastN(captured, Min2(Len(captured), prefs.maxSentenceWords)))
    /\ [][\/ sentence' = sentence
          \/ \E w \in { captured'[i] : i \in 1 .. Len(captured') } :
                \/ sentence' = Append(sentence, w)
                \/ sentence' = Append(Tail(sentence), w)]_vars

\* more commits than the cap, the two last of them different words
C7_Witness ==
    /\ Len(captured) > prefs.maxSentenceWords
    /\ Len(sentence) = prefs.maxSentenceWords
    /\ sentence[1] # sentence[2]
    /\ captured[1] # sentence[1]

---------------------------------------------------------------------------
(* The prefix tree on its own: buildTrie word by word, then walks *)

LetterSet == { Letters[i] : i \in 1 .. Len(Letters) }

\* the strings over the letters of length at most n
Strings(n) == UNION { [1 .. k -> LetterSet] : k \in 0 .. n }

\* the word lists of at most MaxTrieWords words of at most MaxTrieLen letters
WordLists == UNION { [1 .. k -> Strings(MaxTrieLen)] : k \in 0 .. MaxTrieWords }

\* the world before createWorld has run
NoWorld ==
    /\ app = AppLoaded
    /\ pc = NoPass
    /\ prefs = Prefs
    /\ grid = [rows |-> 0, cols |-> prefs.gridCols]
    /\ cells = << >>
    /\ words = << >>
    /\ sentence = << >>
    /\ capture = [active |-> FALSE, startMs |-> 0, wordUnderSpot |-> NoCandidate,
                  progress01 |-> 0, key |-> << >>]
    /\ mouse = [x |-> 0, y |-> 0, down |-> FALSE]
    /\ now = 0
    /\ lastMs = 0
    /\ captured = << >>
    /\ scan = NoScan

\* words.js:24: the root alone
TrieInit ==
    /\ NoWorld
    /\ dictionary \in WordLists
    /\ trie = EmptyTrie
    /\ trieN = 0
    /\ walk = NoWalk

\* words.js:25-33: one turn of the loop over the words
TrieInsert ==
    /\ trieN < Len(dictionary)
    /\ trie' = InsertWord(trie, dictionary[trieN + 1])
    /\ trieN' = trieN + 1
    /\ UNCHANGED <<pc, app, prefs, dictionary, walk, worldVars, scan>>

\* a walk from the root of the finished trie along any string
TrieWalk ==
    /\ trieN = Len(dictionary)
    /\ \E s \in Strings(MaxTrieLen + 1) :
          walk' = [str |-> s, node |-> WalkTrie(trie, s)]
    /\ UNCHANGED <<pc, app, prefs, dictionary, trie, trieN, worldVars, scan>>

TrieNext == TrieInsert \/ TrieWalk

SpecTrie == TrieInit /\ [][TrieNext]_vars

InList(s, ws) == \E k \in 1 .. Len(ws) : ws[k] = s

\* a list without its repeated words (the first of each kept)
RECURSIVE Dedup(_)
Dedup(ws) ==
    IF Len(ws) = 0 THEN << >>
    ELSE LET front == Dedup(SubSeq(ws, 1, Len(ws) - 1))
         IN  IF InList(ws[Len(ws)], front) THEN front ELSE Append(front, ws[Len(ws)])

(* C8 *)

\* C8: trie correctness -- in the trie buildTrie builds from a word list, the
\* walk from the root along a string ends at a node marked complete exactly
\* when the string is in the list; along a string that is not, it hits a
\* missing child or ends at a node with t = false.  Repeated words change
\* nothing: the trie is the one built from the list without them.
C8_TrieCorrect ==
    /\ walk # NoWalk =>
           /\ (walk.node # 0 /\ trie[walk.node].t) <=> InList(walk.str, dictionary)
           /\ ~InList(walk.str, dictionary) => (walk.node = 0 \/ ~trie[walk.node].t)
    /\ trieN = Len(dictionary) => trie = buildTrie(Dedup(dictionary))

\* the list holds two words that share their first letter and differ in the
\* second, and the walk along the second word ended at a complete node
C8_Witness ==
    /\ walk # NoWalk
    /\ Len(dictionary) = 2
    /\ Len(walk.str) = 2
    /\ dictionary[2] = walk.str
    /\ Len(dictionary[1]) = 2
    /\ dictionary[1][1] = walk.str[1]
    /\ dictionary[1][2] # walk.str[2]
    /\ walk.node # 0
    /\ trie[walk.node].t

---------------------------------------------------------------------------
(* The scanner on its own: any letters, any fades, a pointer, one scan *)

\* a wider grid with a wider spotlight and words of two and three letters
ScanPrefs ==
    [Prefs EXCEPT !.gridCols = 3, !.maxWordLength = 3, !.spotlightRadiusPx = 2]

\* "ab" is a prefix of "aba"; "b" is shorter than minWordLength
ScanDictionary == << <<"a", "b">>, <<"a", "b", "a">>, <<"b">> >>

\* over (0,0); over (0,1); between the rows at column 1; over (1,2); at the
\* corner shared by the four cells of columns 0 and 1
ScanMousePoints ==
    { [x |-> 1, y |-> 1], [x |-> 3, y |-> 1], [x |-> 3, y |-> 2], [x |-> 5, y |-> 3],
      [x |-> 2, y |-> 2] }

\* a grid of two rows: every cell shows any letter and is either steady and
\* fully visible or at the start of its fade-in
ScanInit ==
    /\ app = AppLoaded
    /\ pc = NoPass
    /\ prefs = ScanPrefs
    /\ dictionary = ScanDictionary
    /\ trie = buildTrie(dictionary)
    /\ trieN = Len(dictionary)
    /\ walk = NoWalk
    /\ grid = [rows |-> 2, cols |-> prefs.gridCols]
    /\ cells \in [0 .. (grid.rows * grid.cols - 1) ->
                    { [char |-> ch, fadeT |-> f,
                       fadeDir |-> IF f = FadeMax THEN 0 ELSE 1,
                       nextAt |-> prefs.fadeDurationRangeSec[1],
                       locked |-> FALSE, nextChar |-> None] :
                         ch \in randomGridChar, f \in {0, FadeMax} }]
    /\ words = << >>
    /\ sentence = << >>
    /\ capture = [active |-> FALSE, startMs |-> 0, wordUnderSpot |-> NoCandidate,
                  progress01 |-> 0, key |-> << >>]
    /\ \E p \in ScanMousePoints : mouse = [x |-> p.x, y |-> p.y, down |-> FALSE]
    /\ now = 0
    /\ lastMs = 0
    /\ captured = << >>
    /\ scan = NoScan

\* main.js:291-329: one call of wordUnderSpotlight, its candidates list kept
ScanFrame ==
    /\ ~scan.done
    /\ \E chosen \in wordUnderSpotlight(cells, mouse) :
          scan' = [done |-> TRUE, candidates |-> Candidates(cells, mouse),
                   chosen |-> chosen]
    /\ UNCHANGED <<pc, app, prefs, dictionary, trie, trieN, walk, worldVars>>

SpecScan == ScanInit /\ [][ScanFrame]_vars

\* the characters of the cells of row r from column c1 to c2, left to right
RowString(r, c1, c2) ==
    [i \in 1 .. (c2 - c1 + 1) |-> cells[getCellIndex(r, c1 + i - 1)].char]

\* the characters of the cells of column c from row r1 to r2, top to bottom
ColString(c, r1, r2) ==
    [i \in 1 .. (r2 - r1 + 1) |-> cells[getCellIndex(r1 + i - 1, c)].char]

Included(idx) ==
    /\ inside(idx, mouse)
    /\ cells[idx].fadeT >= prefs.detectionAlphaThreshold

\* the spans <<r, c1, c2>> of included cells of one row that spell a word
RowRuns ==
    { run \in (0 .. (grid.rows - 1)) \X (0 .. (grid.cols - 1)) \X (0 .. (grid.cols - 1)) :
        /\ run[2] <= run[3]
        /\ \A c \in run[2] .. run[3] : Included(getCellIndex(run[1], c))
        /\ InList(RowString(run[1], run[2], run[3]), dictionary) }

\* the spans <<c, r1, r2>> of included cells of one column that spell a word
\* of a length within the bounds
ColRuns ==
    { run \in (0 .. (grid.cols - 1)) \X (0 .. (grid.rows - 1)) \X (0 .. (grid.rows - 1)) :
        /\ run[2] <= run[3]
        /\ \A r \in run[2] .. run[3] : Included(getCellIndex(r, run[1]))
        /\ InList(ColString(run[1], run[2], run[3]), dictionary)
        /\ InRange(ColString(run[1], run[2], run[3])) }

Span(cand) == <<cand.r, cand.c, cand.c + Len(cand.cells) - 1>>

(* C9 *)

\* C9: vertical detection -- when cells of a column form a contiguous run of
\* included cells whose characters read top to bottom spell a dictionary word
\* of a length within the bounds, the scanner records a candidate of
\* vertical orientation spanning those cells.
\* Stated as the claim states it; the sketch violates it.
C9_VerticalDetected ==
    scan.done =>
        \A run \in ColRuns :
            \E k \in 1 .. Len(scan.candidates) :
                /\ scan.candidates[k].dir = "V"
                /\ IdxSeq(scan.candidates[k]) =
                       [i \in 1 .. (run[3] - run[2] + 1) |->
                           getCellIndex(run[2] + i - 1, run[1])]

(* C10 *)

\* C10: row scan exactness -- the candidates recorded for the rows are
\* exactly the contiguous runs of included cells of one row whose current
\* characters, read left to right, spell a dictionary word, each recorded
\* once; each candidate's word is the concatenation of its cells' characters
\* and its cells are the cells of its span, in order.
C10_RowScanExact ==
    scan.done =>
        /\ { Span(scan.candidates[k]) : k \in 1 .. Len(scan.candidates) } = RowRuns
        /\ Len(scan.candidates) = Cardinality(RowRuns)
        /\ \A k \in 1 .. Len(scan.candidates) :
              LET cand == scan.candidates[k]
              IN  /\ cand.dir = "H"
                  /\ Len(cand.cells) = Len(cand.word)
                  /\ cand.word = RowString(cand.r, cand.c, cand.c + Len(cand.cells) - 1)
                  /\ \A i \in 1 .. Len(cand.cells) :
                        /\ cand.cells[i].idx = getCellIndex(cand.r, cand.c + i - 1)
                        /\ cand.cells[i].ch = cand.word[i]

\* a whole row in the spotlight spells "aba": the scan recorded "ab", "aba"
\* and "b" from it, and nothing from a row whose middle cell is invisible
C10_Witness ==
    /\ scan.done
    /\ \E k \in 1 .. Len(scan.candidates) : Len(scan.candidates[k].word) = 3
    /\ \E k \in 1 .. Len(scan.candidates) :
          Len(scan.candidates[k].word) = 2 /\ scan.candidates[k].c = 0
    /\ \E k \in 1 .. Len(scan.candidates) :
          Len(scan.candidates[k].word) = 1 /\ scan.candidates[k].c = 1
    /\ \E idx \in DOMAIN cells : inside(idx, mouse) /\ cells[idx].fadeT = 0

(* C11 *)

\* the cells of the candidates the scan recorded
ScannedCells ==
    UNION { CellSet(scan.candidates[k]) : k \in 1 .. Len(scan.candidates) }

DistSq(idx) ==
    (CellX(idx) - mouse.x) * (CellX(idx) - mouse.x)
        + (CellY(idx) - mouse.y) * (CellY(idx) - mouse.y)

\* C11: inclusion criterion -- every cell of every recorded candidate lies
\* within the radius of the pointer (squared distance of its anchor at most
\* radius squared) and has a fade fraction of at least the visibility
\* threshold; and a cell showing a letter that is a dictionary word by
\* itself is part of a candidate if and only if it satisfies both
\* conditions, so the two conditions are exactly the inclusion test.
C11_InclusionCriterion ==
    scan.done =>
        /\ \A idx \in ScannedCells :
              /\ DistSq(idx) <= prefs.spotlightRadiusPx * prefs.spotlightRadiusPx
              /\ cells[idx].fadeT >= prefs.detectionAlphaThreshold
        /\ \A idx \in DOMAIN cells :
              InList(<<cells[idx].char>>, dictionary) =>
                  (idx \in ScannedCells <=>
                      /\ DistSq(idx) <= prefs.spotlightRadiusPx * prefs.spotlightRadiusPx
                      /\ cells[idx].fadeT >= prefs.detectionAlphaThreshold)

\* the scan recorded a candidate while a cell showing a one-letter word lay
\* inside the circle but was invisible, and another such cell was visible
\* but outside the circle: neither is part of a candidate
C11_Witness ==
    /\ scan.done
    /\ Len(scan.candidates) > 0
    /\ \E idx \in DOMAIN cells :
          /\ InList(<<cells[idx].char>>, dictionary)
          /\ DistSq(idx) <= prefs.spotlightRadiusPx * prefs.spotlightRadiusPx
          /\ cells[idx].fadeT < prefs.detectionAlphaThreshold
          /\ idx \notin ScannedCells
    /\ \E idx \in DOMAIN cells :
          /\ InList(<<cells[idx].char>>, dictionary)
          /\ DistSq(idx) > prefs.spotlightRadiusPx * prefs.spotlightRadiusPx
          /\ cells[idx].fadeT >= prefs.detectionAlphaThreshold
          /\ idx \notin ScannedCells

(* C12 *)

\* the recorded candidates whose length is within the bounds
InBoundsCandidates ==
    { k \in 1 .. Len(scan.candidates) :
        /\ Len(scan.candidates[k].word) >= prefs.minWordLength
        /\ Len(scan.candidates[k].word) <= prefs.maxWordLength }

\* C12: candidate selection -- wordUnderSpotlight returns "no candidate" if
\* and only if no recorded candidate has a length within the bounds;
\* otherwise what it returns is one of the recorded candidates, of a length
\* within the bounds, and no in-bounds candidate is strictly longer.
C12_CandidateSelection ==
    scan.done =>
        /\ scan.chosen = NoCandidate <=> InBoundsCandidates = {}
        /\ scan.chosen # NoCandidate =>
              /\ \E k \in InBoundsCandidates : scan.candidates[k] = scan.chosen
              /\ \A k \in InBoundsCandidates :
                    Len(scan.candidates[k].word) <= Len(scan.chosen.word)

\* the scan returned a three-letter candidate although it recorded a
\* two-letter one before it and a one-letter one, below the bounds
C12_Witness ==
    /\ scan.done
    /\ Len(scan.chosen.word) = 3
    /\ Len(scan.candidates) >= 3
    /\ Len(scan.candidates[1].word) = 2
    /\ \E k \in 1 .. Len(scan.candidates) : Len(scan.candidates[k].word) = 1

---------------------------------------------------------------------------
(* The grid under the whole frame loop *)

\* the same world under a configuration with a hold of one tick, so that a
\* commit and the fades after it fit before the last frame
QuickPrefs == [Prefs EXCEPT !.holdToCaptureSeconds = 1]

QuickInit ==
    /\ app = AppLoaded
    /\ pc = NoPass
    /\ prefs = QuickPrefs
    /\ dictionary = DICTIONARY
    /\ createWorld(1)
    /\ captured = << >>
    /\ walk = NoWalk
    /\ scan = NoScan

SpecQuick == QuickInit /\ [][Next]_vars

(* C13 *)

Steady(w) == \A i \in 1 .. Len(w.cells) : cells[w.cells[i].idx].fadeDir = 0

Spells(w) == \A i \in 1 .. Len(w.cells) : cells[w.cells[i].idx].char = w.word[i]

\* C13: locked-word spelling -- for every PlacedWord of the active set,
\* whenever all its cells are steady (no fade in flight), the characters of
\* its cells read in placement order spell the word.
\* Stated as the claim states it.
C13_LockedWordSpells ==
    \A i \in 1 .. Len(words) : Steady(words[i]) => Spells(words[i])

(* C14 *)

\* C14: the lock flag means membership -- a cell is locked if and only if it
\* belongs to the cell list of some PlacedWord of the active set.
\* Stated as the claim states it.
C14_LockMeansMembership ==
    \A idx \in DOMAIN cells :
        cells[idx].locked <=> \E i \in 1 .. Len(words) : idx \in CellSet(words[i])

(* C15 *)

\* C15: fade bounds -- in every reachable state every cell's fade fraction
\* lies between 0 and 1 (FadeMax on the model's scale).
C15_FadeBounds ==
    \A idx \in DOMAIN cells : cells[idx].fadeT >= 0 /\ cells[idx].fadeT <= FadeMax

\* a cell half-way through a fade and a cell that an update has brought to
\* the bound 0 (every cell starts fully visible)
C15_Witness ==
    /\ \E idx \in DOMAIN cells : cells[idx].fadeT = 0 /\ cells[idx].fadeDir = 1
    /\ \E idx \in DOMAIN cells : cells[idx].fadeT > 0 /\ cells[idx].fadeT < FadeMax

(* C16 *)

\* C16: fade monotonicity -- over every frame (grid update, seeding and
\* capture together), a cell that was fading out above 0 does not rise and
\* is afterwards still fading out, or has reached 0 and fades in; a cell
\* that was fading in below 1 does not fall and is afterwards still fading
\* in, or has reached 1 and is steady.
\* Stated as the claim states it.
C16_FadeMonotone ==
    [][Frame =>
         \A idx \in DOMAIN cells :
             /\ (cells[idx].fadeDir = -1 /\ cells[idx].fadeT > 0) =>
                    /\ cells'[idx].fadeT <= cells[idx].fadeT
                    /\ \/ cells'[idx].fadeDir = -1
                       \/ cells'[idx].fadeT = 0 /\ cells'[idx].fadeDir = 1
             /\ (cells[idx].fadeDir = 1 /\ cells[idx].fadeT < FadeMax) =>
                    /\ cells'[idx].fadeT >= cells[idx].fadeT
                    /\ \/ cells'[idx].fadeDir = 1
                       \/ cells'[idx].fadeT = FadeMax /\ cells'[idx].fadeDir = 0]_vars

(* C17 *)

\* C17: locked cells never spontaneously mutate -- in every reachable state
\* and for every grid update that can follow it (any dt up to the cap, any
\* draws): a steady locked cell is left as it is, so no fade-out starts on
\* it; a locked cell that is fading out has a letter staged by the seeder,
\* so the update never draws a random character for it; and the character
\* of a locked cell changes only to the staged letter.
C17_LockedNeverMutates ==
    \A idx \in DOMAIN cells :
        cells[idx].locked =>
            /\ cells[idx].fadeDir = -1 => cells[idx].nextChar # None
            /\ \A dt \in 0 .. DtCap, t \in now .. (now + MaxAdv) :
                  \A cs2 \in updateLetters(cells, dt, t) :
                      /\ cells[idx].fadeDir = 0 => cs2[idx] = cells[idx]
                      /\ cs2[idx].char # cells[idx].char =>
                            cs2[idx].char = cells[idx].nextChar

\* a locked cell whose own cycle is over stands steady, and another locked
\* cell has faded to 0, taken a letter and fades in
C17_Witness ==
    /\ \E idx \in DOMAIN cells :
          /\ cells[idx].locked
          /\ cells[idx].fadeDir = 0
          /\ now >= cells[idx].nextAt
    /\ \E idx \in DOMAIN cells :
          /\ cells[idx].locked
          /\ cells[idx].fadeDir = 1
          /\ cells[idx].nextChar = None

---------------------------------------------------------------------------
(* One seeding pass on any world, under any configuration *)

\* the most words the world holds before the pass
MaxSeedWords == 3

\* a one-letter and a two-letter word
SeedDictionary == << <<"a">>, <<"a", "b">> >>

\* <<minWordLength, maxWordLength>>: the last matches no word
SeedLengths == { <<1, 1>>, <<1, 2>>, <<2, 2>>, <<3, 3>> }

\* <<minActiveWords, maxActiveWords>> with the minimum at most the maximum
SeedPopulations == { <<0, 0>>, <<0, 1>>, <<1, 1>>, <<1, 2>>, <<2, 2>> }

SeedPrefs(len, pop) ==
    [Prefs EXCEPT !.minWordLength = len[1], !.maxWordLength = len[2],
                  !.minActiveWords = pop[1], !.maxActiveWords = pop[2]]

\* main.js:199-247: the PlacedWords seedOneWord can push on this grid
Placements ==
    { PlacedWord(w, r, c, "H") :
        w \in chooseWord,
        r \in 0 .. (grid.rows - 1), c \in 0 .. (grid.cols - 1) }
    \cup
    { PlacedWord(w, r, c, "V") :
        w \in chooseWord,
        r \in 0 .. (grid.rows - 1), c \in 0 .. (grid.cols - 1) }

Fits(w) == \A i \in 1 .. Len(w.cells) : inBounds(w.cells[i].r, w.cells[i].c)

\* lists of placed words that fit the grid and share no cell
PlacedLists ==
    { ws \in UNION { [1 .. n -> { w \in Placements : Fits(w) }] : n \in 0 .. MaxSeedWords } :
        \A i, j \in 1 .. Len(ws) :
            i # j => { ws[i].cells[k].idx : k \in 1 .. Len(ws[i].cells) }
                       \cap { ws[j].cells[k].idx : k \in 1 .. Len(ws[j].cells) } = {} }

\* the letter a cell shows once the words of ws have faded in: its word's
\* letter, or "a" where no word lies
ShownLetter(ws, idx) ==
    IF \E i \in 1 .. Len(ws) : \E k \in 1 .. Len(ws[i].cells) : ws[i].cells[k].idx = idx
    THEN LET i == CHOOSE i \in 1 .. Len(ws) :
                      \E k \in 1 .. Len(ws[i].cells) : ws[i].cells[k].idx = idx
             k == CHOOSE k \in 1 .. Len(ws[i].cells) : ws[i].cells[k].idx = idx
         IN  ws[i].word[k]
    ELSE "a"

\* a steady grid of two rows holding any list of placed words, under any of
\* the configurations; prefs is an object the page can write (main.js:573),
\* so the list may be longer than the maximum now configured
SeedInit ==
    /\ app = AppLoaded
    /\ pc = NoPass
    /\ \E len \in SeedLengths, pop \in SeedPopulations : prefs = SeedPrefs(len, pop)
    /\ dictionary = SeedDictionary
    /\ trie = buildTrie(dictionary)
    /\ trieN = Len(dictionary)
    /\ walk = NoWalk
    /\ grid = [rows |-> 2, cols |-> prefs.gridCols]
    /\ words \in PlacedLists
    /\ cells = [idx \in 0 .. (grid.rows * grid.cols - 1) |->
                  [char |-> ShownLetter(words, idx), fadeT |-> FadeMax, fadeDir |-> 0,
                   nextAt |-> prefs.fadeDurationRangeSec[1],
                   locked |-> \E i \in 1 .. Len(words) :
                                 \E k \in 1 .. Len(words[i].cells) :
                                     words[i].cells[k].idx = idx,
                   nextChar |-> None]]
    /\ sentence = << >>
    /\ capture = [active |-> FALSE, startMs |-> 0, wordUnderSpot |-> NoCandidate,
                  progress01 |-> 0, key |-> << >>]
    /\ mouse = [x |-> (grid.cols * CellW) \div 2, y |-> (grid.rows * CellH) \div 2,
                down |-> FALSE]
    /\ now = 0
    /\ lastMs = 0
    /\ captured = << >>
    /\ scan = NoScan

\* main.js:176-192: one call of ensureWordSeeding with dt at the cap
SeedPass ==
    /\ now = 0
    /\ \E s \in ensureWordSeeding(cells, words, DtCap) :
          /\ cells' = s.cells
          /\ words' = s.words
    /\ now' = 1
    /\ lastMs' = 1
    /\ UNCHANGED <<pc, app, prefs, dictionary, trie, trieN, walk, grid, sentence, capture,
                   mouse, captured, scan>>

SpecSeed == SeedInit /\ [][SeedPass]_vars

\* how many of the words survive the eviction loop of the pass
Survivors ==
    IF prefs.maxActiveWords # 0 /\ Len(words) > prefs.maxActiveWords
    THEN prefs.maxActiveWords ELSE Len(words)

(* C18 *)

\* C18 as stated: assuming minActiveWords <= maxActiveWords, after every
\* ensureWordSeeding pass the number of active words is at most
\* maxActiveWords.
C18_PopulationBound ==
    [][(now' # now /\ prefs.minActiveWords <= prefs.maxActiveWords)
       => Len(words') <= prefs.maxActiveWords]_vars

\* C18, amended: assuming 1 <= maxActiveWords and minActiveWords <=
\* maxActiveWords, after every ensureWordSeeding pass the number of active
\* words is at most maxActiveWords; when the count was at or above the
\* maximum the pass adds nothing, keeps exactly the newest maxActiveWords
\* words and unlocks the cells of the evicted ones.  (A maximum of 0 is
\* read by the code as no maximum.)
C18_PopulationBoundAmended ==
    [][(/\ now' # now
        /\ prefs.maxActiveWords >= 1
        /\ prefs.minActiveWords <= prefs.maxActiveWords)
       => /\ Len(words') <= prefs.maxActiveWords
          /\ Len(words) >= prefs.maxActiveWords =>
                /\ words' = LastN(words, prefs.maxActiveWords)
                /\ \A i \in 1 .. (Len(words) - prefs.maxActiveWords) :
                      \A idx \in CellSet(words[i]) : ~cells'[idx].locked]_vars

\* after a pass the count is at a maximum of at least 1 and a cell showing
\* "b", the letter of a word that was placed, is unlocked: its word was
\* evicted
C18_Witness ==
    /\ now = 1
    /\ prefs.maxActiveWords >= 1
    /\ Len(words) = prefs.maxActiveWords
    /\ \E idx \in DOMAIN cells : cells[idx].char = "b" /\ ~cells[idx].locked

(* C19 *)

---------------------------------------------------------------------------
(* A grid too small for the configured word lengths *)

\* words of three letters only, on a grid of two rows and two columns; the
\* letters keep still (no random mutation, fades of one tick)
SmallGridPrefs ==
    [Prefs EXCEPT !.minWordLength = 3, !.maxWordLength = 3,
                  !.changeProbabilityPerCycle = 0,
                  !.fadeDurationRangeSec = <<1, 1>>]

\* a dictionary with a word of three letters, and one without
SmallGridDictionaries ==
    { << <<"a", "b">>, <<"a", "b", "a">> >>, DICTIONARY }

SmallGridInit ==
    /\ app = AppLoaded
    /\ pc = NoPass
    /\ prefs = SmallGridPrefs
    /\ dictionary \in SmallGridDictionaries
    /\ createWorld(2)
    /\ captured = << >>
    /\ walk = NoWalk
    /\ scan = NoScan

SpecSmallGrid == SmallGridInit /\ [][Next]_vars

\* minWordLength exceeds the number of rows and the number of columns
BeyondCapacity == prefs.minWordLength > grid.rows /\ prefs.minWordLength > grid.cols

(* C20 *)

---------------------------------------------------------------------------
(* Single calls of seedOneWord on any world *)

\* the most calls of seedOneWord in SpecSeedOne
MaxSeedCalls == 2

\* main.js:194-251: one call of seedOneWord
SeedOne ==
    /\ now < MaxSeedCalls
    /\ \E o \in seedOneWord(cells, words) :
          /\ cells' = o.cells
          /\ words' = o.words
    /\ now' = now + 1
    /\ lastMs' = now + 1
    /\ UNCHANGED <<pc, app, prefs, dictionary, trie, trieN, walk, grid, sentence, capture,
                   mouse, captured, scan>>

SpecSeedOne == SeedInit /\ [][SeedOne]_vars

\* some draws of a seedOneWord call on the present world place a word
CanPlace == \E o \in seedOneWord(cells, words) : o.ok

(* C21 *)

\* C21: failed placement has no effect -- a seedOneWord call that places
\* nothing (the word list is no longer afterwards) leaves the word list and
\* every cell (locked flag, fade direction, fade fraction, staged and
\* displayed character) as they were; so whatever call could succeed before
\* it can still succeed after it.
C21_FailedPlacementNoEffect ==
    [][(now' # now /\ Len(words') <= Len(words))
       => (words' = words /\ cells' = cells)]_vars

\* a first call has failed on a world with a word in place (no word added,
\* no cell staged) although a free run exists: a later call can succeed
C21_Witness ==
    /\ now = 1
    /\ Len(words) = 1
    /\ \A idx \in DOMAIN cells : cells[idx].fadeDir = 0
    /\ CanPlace

---------------------------------------------------------------------------
(* The order of the calls within a frame *)

(* C22 *)

---------------------------------------------------------------------------
(* Frames whose callees read the clock after the frame's timestamp *)

\* the most ticks between a frame's timestamp and a
\* reading of performance.now() taken while handling it
MaxLag == 1

\* main.js:536-544: step(now) takes dt from the frame timestamp, while
\* updateLetters (main.js:140) and updateCapture (main.js:383, 387) read
\* performance.now() themselves, up to MaxLag later
StepClock ==
    \E adv \in 1 .. MaxAdv, lag \in 0 .. MaxLag :
        /\ now + adv <= MaxNow
        /\ LET t  == now + adv
               dt == Min2(DtCap, Max2(0, t - lastMs))
           IN  \E u \in FrameOutcomes(cells, words, sentence, capture, mouse, dt, t + lag) :
                   /\ cells' = u.cells
                   /\ words' = u.words
                   /\ sentence' = u.sentence
                   /\ capture' = u.capture
                   /\ captured' = captured \o u.done
                   /\ now' = t
                   /\ lastMs' = t
        /\ UNCHANGED <<pc, app, prefs, dictionary, trie, trieN, walk, grid, mouse, scan>>

NextClock == StepClock \/ MouseDown \/ MouseUp

SpecClock == Init /\ [][NextClock]_vars

(* C23 *)

\* C23: reproducibility -- two runs with the same seed and the same input
\* timeline (pointer samples, button states, frame timestamps) pass through
\* the same states.  So from any reachable state, for the next frame
\* timestamp, whatever two clock readings the two runs take while handling
\* the frame, the same draws must lead both to the same state: the sets of
\* states the frame can lead to under the two readings must share a state.
\* Stated as the claim states it; the sketch violates it.
C23_Reproducible ==
    \A adv \in 1 .. MaxAdv :
        now + adv <= MaxNow =>
            \A lag1, lag2 \in 0 .. MaxLag :
                LET t  == now + adv
                    dt == Min2(DtCap, Max2(0, t - lastMs))
                IN  FrameOutcomes(cells, words, sentence, capture, mouse, dt, t + lag1)
                      \cap
                    FrameOutcomes(cells, words, sentence, capture, mouse, dt, t + lag2)
                      # {}

(* C24 *)

\* C24: progress value -- capture.progress01 is within [0,1] (here 0 ..
\* holdToCaptureSeconds, in holdToCaptureSeconds-ths) in every reachable state
\* and is 0 whenever no capture is active; in every frame that continues a
\* hold it equals min(1, (now - startMs) / hold), recomputed from the start
\* time and not accumulated from per-frame deltas.
C24_ProgressValue ==
    /\ [](/\ capture.progress01 >= 0
          /\ capture.progress01 <= prefs.holdToCaptureSeconds
          /\ (~capture.active => capture.progress01 = 0))
    /\ [][(Frame /\ capture.active /\ capture'.active) =>
              /\ capture'.startMs = capture.startMs
              /\ capture'.progress01 =
                    Min2(prefs.holdToCaptureSeconds, now' - capture'.startMs)]_vars

\* a hold one tick old, with progress one half
C24_Witness ==
    /\ capture.active
    /\ now = capture.startMs + 1
    /\ capture.progress01 = 1
    /\ prefs.holdToCaptureSeconds = 2

---------------------------------------------------------------------------
(* A row of three cells under one spotlight: equal-length candidates *)

\* a quiet grid (no cosmetic mutation, no seeding) of three columns, all of
\* them within the spotlight of a pointer over the middle cell
TiePrefs ==
    [Prefs EXCEPT !.gridCols = 3, !.spotlightRadiusPx = 2,
                  !.changeProbabilityPerCycle = 0,
                  !.fadeDurationRangeSec = <<1, 1>>,
                  !.seedWordsPerMinute = 0, !.minActiveWords = 0]

\* "aa" is found at two offsets of the row "aaa"; "ab" and "ba" tie in "aba"
TieDictionary == << <<"a", "a">>, <<"a", "b">>, <<"b", "a">> >>

TieInit ==
    /\ app = AppLoaded
    /\ pc = NoPass
    /\ prefs = TiePrefs
    /\ dictionary = TieDictionary
    /\ createWorld(1)
    /\ captured = << >>
    /\ walk = NoWalk
    /\ scan = NoScan

SpecTie == TieInit /\ [][Next]_vars

(* C25 *)

\* C25: frozen candidate -- while a hold is active and the button is down, a
\* frame in which the live scan can return a candidate other than the held
\* one only by the tie-break among equal-length candidates (the held one is
\* still among those the scan can return; this includes the same letters at
\* another offset) leaves the held candidate and its start time as they were
\* and does not restart the progress: the hold either continues with the
\* progress of the elapsed time or commits the held word.
C25_FrozenCandidate ==
    [][(/\ Frame
        /\ capture.active
        /\ mouse.down
        /\ capture.wordUnderSpot \in wordUnderSpotlight(cells', mouse)
        /\ Cardinality(wordUnderSpotlight(cells', mouse)) >= 2) =>
          \/ /\ capture'.active
             /\ capture'.wordUnderSpot = capture.wordUnderSpot
             /\ capture'.key = capture.key
             /\ capture'.startMs = capture.startMs
             /\ capture'.progress01 = Min2(prefs.holdToCaptureSeconds,
                                           now' - capture.startMs)
          \/ /\ ~capture'.active
             /\ now' - capture.startMs >= prefs.holdToCaptureSeconds
             /\ captured' = Append(captured, capture.wordUnderSpot.word)]_vars

\* a hold that has gone through a frame while the scan could have returned
\* another candidate of the same length
C25_Witness ==
    /\ capture.active
    /\ capture.progress01 >= 1
    /\ capture.wordUnderSpot \in wordUnderSpotlight(cells, mouse)
    /\ \E other \in wordUnderSpotlight(cells, mouse) :
          /\ other # capture.wordUnderSpot
          /\ other.word = capture.wordUnderSpot.word

---------------------------------------------------------------------------
(* C26 *)

\* C26: no candidate, no capture -- if no capture is active and the scan of
\* a frame yields no candidate, the capture machine is idle after the frame
\* (inactive, no frozen candidate, progress 0) whether or not the button is
\* down, and the sentence is as it was; a capture becomes active only in a
\* frame where the button is down and the scan yields a candidate, which is
\* the one frozen.
C26_NoCandidateNoCapture ==
    /\ [][(/\ Frame
           /\ ~capture.active
           /\ wordUnderSpotlight(cells', mouse) = {NoCandidate}) =>
             /\ ~capture'.active
             /\ capture'.wordUnderSpot = NoCandidate
             /\ capture'.progress01 = 0
             /\ sentence' = sentence
             /\ captured' = captured]_vars
    /\ [][(Frame /\ ~capture.active /\ capture'.active) =>
             /\ mouse.down
             /\ capture'.wordUnderSpot # NoCandidate
             /\ capture'.wordUnderSpot \in wordUnderSpotlight(cells', mouse)]_vars

\* after a frame with the button down and nothing under the spotlight
C26_Witness ==
    /\ now >= 1
    /\ mouse.down
    /\ ~capture.active
    /\ capture.progress01 = 0
    /\ wordUnderSpotlight(cells, mouse) = {NoCandidate}
    /\ sentence = << >>

---------------------------------------------------------------------------
(* The counterpoint app as a state machine *)

AppInit ==
    /\ NoWorld
    /\ dictionary = DICTIONARY
    /\ trie = EmptyTrie
    /\ trieN = 0
    /\ walk = NoWalk

\* part_001:138-165 and 170-181, handleInput(text, now) up to its await: an
\* input event with the editor's new text (one paragraph, the texts holding
\* no newline), and the request sent if one is due
HandleInput ==
    \E text \in Texts, adv \in 0 .. 1 :
        /\ app.kind = "counterpoint"
        /\ text # app.state.userText
        /\ now + adv <= MaxNow
        /\ LET t    == now + adv
               s1   == updateUserText(app.state, text, t)
               send == /\ shouldSend(Len(text), endsWithSentence(text), s1.lastSentAt, t)
                       /\ Trim(text) # << >>
                       /\ ~Busy(s1)
               n    == IF send THEN 1 ELSE 0
           IN  /\ app' = Track(render(IF send THEN setLoading(s1, t) ELSE s1),
                               app.inflight + n, app.timers, app.sent + n)
               /\ now' = t
        /\ UNCHANGED <<pc, prefs, dictionary, trie, trieN, walk, grid, cells, words,
                       sentence, capture, mouse, lastMs, captured, scan>>

\* part_001:183-192, sendAiRequest after the await: the response of an
\* outstanding request has come
AiResponse ==
    /\ app.kind = "counterpoint"
    /\ app.inflight > 0
    /\ app' = Track(render(setAiResponse(app.state)),
                    app.inflight - 1, app.timers, app.sent)
    /\ UNCHANGED <<pc, prefs, dictionary, trie, trieN, walk, worldVars, scan>>

\* part_001:194-206, sendAiRequest's catch: an outstanding request has
\* failed; the reset is scheduled
AiError ==
    /\ app.kind = "counterpoint"
    /\ app.inflight > 0
    /\ app' = Track(render(setError(app.state)),
                    app.inflight - 1, app.timers + 1, app.sent)
    /\ UNCHANGED <<pc, prefs, dictionary, trie, trieN, walk, worldVars, scan>>

\* part_001:200-205, the timeout set in the catch: back to idle if still in
\* error
ErrorTimeout ==
    /\ app.kind = "counterpoint"
    /\ app.timers > 0
    /\ app' = Track(render(TimerReset(app.state)),
                    app.inflight, app.timers - 1, app.sent)
    /\ UNCHANGED <<pc, prefs, dictionary, trie, trieN, walk, worldVars, scan>>

\* part_001:212-215, handleDialChange(value)
HandleDialChange ==
    /\ app.kind = "counterpoint"
    /\ \E value \in {0, 50, 100} :
          /\ value # app.state.currentDial
          /\ app' = Track(render(updateDial(app.state, value)),
                          app.inflight, app.timers, app.sent)
    /\ UNCHANGED <<pc, prefs, dictionary, trie, trieN, walk, worldVars, scan>>

AppNext == HandleInput \/ AiResponse \/ AiError \/ ErrorTimeout \/ HandleDialChange

SpecApp == AppInit /\ [][AppNext]_vars

\* ---------------------------------------------------------------------------
\* The captioner page as a state machine (ai-captioner/app.js)

CaptionerInit ==
    /\ app = CaptionerLoaded
    /\ pc = NoPass
    /\ prefs = Prefs
    /\ grid = [rows |-> 0, cols |-> prefs.gridCols]
    /\ cells = << >>
    /\ words = << >>
    /\ sentence = << >>
    /\ capture = [active |-> FALSE, startMs |-> 0, wordUnderSpot |-> NoCandidate,
                  progress01 |-> 0, key |-> << >>]
    /\ mouse = [x |-> 0, y |-> 0, down |-> FALSE]
    /\ now = 0
    /\ lastMs = 0
    /\ captured = << >>
    /\ scan = NoScan
    /\ dictionary = DICTIONARY
    /\ trie = EmptyTrie
    /\ trieN = 0
    /\ walk = NoWalk

\* app.js:93-104, processImage() up to its await (a click on the process
\* button or the space key, app.js:143-151): nothing while loading, else the
\* request is sent
ProcessImage ==
    /\ app.kind = "captioner"
    /\ app.sent < MaxRequests
    /\ ~Busy(app.state)
    /\ app' = Track(captionerRender(captionerSetLoading(app.state)),
                    app.inflight + 1, app.timers, app.sent + 1)
    /\ UNCHANGED <<pc, prefs, dictionary, trie, trieN, walk, worldVars, scan>>

\* app.js:93-97, processImage() returning at once: a trigger while loading
ProcessImageBusy ==
    /\ app.kind = "captioner"
    /\ Busy(app.state)
    /\ now < MaxNow
    /\ now' = now + 1
    /\ UNCHANGED <<app, pc, prefs, dictionary, trie, trieN, walk, grid, cells, words,
                   sentence, capture, mouse, lastMs, captured, scan>>

\* app.js:106-111, processImage() after the await: the caption of an
\* outstanding request has come
CaptionResponse ==
    /\ app.kind = "captioner"
    /\ app.inflight > 0
    /\ app' = Track(captionerRender(setCaption(app.state, "c")),
                    app.inflight - 1, app.timers, app.sent)
    /\ UNCHANGED <<pc, prefs, dictionary, trie, trieN, walk, worldVars, scan>>

\* app.js:113-125, processImage()'s catch: an outstanding request has
\* failed; the reset is scheduled
CaptionError ==
    /\ app.kind = "captioner"
    /\ app.inflight > 0
    /\ app' = Track(captionerRender(captionerSetError(app.state)),
                    app.inflight - 1, app.timers + 1, app.sent)
    /\ UNCHANGED <<pc, prefs, dictionary, trie, trieN, walk, worldVars, scan>>

\* app.js:119-124, the timeout set in the catch
CaptionTimeout ==
    /\ app.kind = "captioner"
    /\ app.timers > 0
    /\ app' = Track(captionerRender(TimerReset(app.state)),
                    app.inflight, app.timers - 1, app.sent)
    /\ UNCHANGED <<pc, prefs, dictionary, trie, trieN, walk, worldVars, scan>>

\* app.js:74-81, clearCanvas() (a click on the clear tool, app.js:140): the
\* caption is cleared through setCaption
ClearCanvas ==
    /\ app.kind = "captioner"
    /\ app' = Track(captionerRender(setCaption(app.state, "")),
                    app.inflight, app.timers, app.sent)
    /\ now < MaxNow
    /\ now' = now + 1
    /\ UNCHANGED <<pc, prefs, dictionary, trie, trieN, walk, grid, cells, words,
                   sentence, capture, mouse, lastMs, captured, scan>>

CaptionerNext ==
    \/ ProcessImage
    \/ ProcessImageBusy
    \/ CaptionResponse
    \/ CaptionError
    \/ CaptionTimeout
    \/ ClearCanvas

SpecCaptioner == CaptionerInit /\ [][CaptionerNext]_vars

\* ---------------------------------------------------------------------------
\* The text-input canvas (text-input/main.js; the canvas text input of
\* docs/text-discovery/main.js:581-1016 adds the deletion of an entry)

\* the most entries stored
MaxEntries == 2

\* the most animation frames requested
MaxFrames == 4

\* the longest buffer typed (prefs.maxLen in the model)
MaxBuffer == 2

\* main.js:287: animationHandle = null
NoHandle == 0

\* main.js:157, 287 and 162-163: the page once the script has run: nothing
\* stored, no frame requested, no input active.  An entry is kept as whether
\* it has a tick function; pending holds the ids of the frame callbacks
\* scheduled, issued the number of ids given out.
CanvasLoaded ==
    [kind |-> "canvas", storage |-> << >>, animationHandle |-> NoHandle,
     pending |-> {}, issued |-> 0, active |-> FALSE, buffer |-> 0]

\* main.js:291 (and 145-147, hasAnimatedEntries)
needsAnimation(storage) == \E i \in 1 .. Len(storage) : storage[i]

\* requestAnimationFrame(step): a new id, its callback scheduled
requestAnimationFrame(c) ==
    [c EXCEPT !.animationHandle = c.issued + 1,
              !.pending = @ \cup {c.issued + 1},
              !.issued = @ + 1]

\* main.js:290-300 with the test animationHandle == null left out
requestAnimationAlways(c) ==
    IF needsAnimation(c.storage)
    THEN requestAnimationFrame(c)
    ELSE IF c.animationHandle # NoHandle
         THEN [c EXCEPT !.pending = @ \ {c.animationHandle},
                        !.animationHandle = NoHandle]
         ELSE c

\* main.js:290-300
requestAnimationIfNeeded(c) ==
    IF needsAnimation(c.storage) /\ c.animationHandle = NoHandle
    THEN requestAnimationFrame(c)
    ELSE IF ~needsAnimation(c.storage) /\ c.animationHandle # NoHandle
         THEN [c EXCEPT !.pending = @ \ {c.animationHandle},
                        !.animationHandle = NoHandle]
         ELSE c

\* the sequence without its i-th element (storage.splice(i, 1))
Splice(seq, i) == [k \in 1 .. Len(seq) - 1 |-> IF k < i THEN seq[k] ELSE seq[k + 1]]

CanvasInit ==
    /\ app = CanvasLoaded
    /\ pc = NoPass
    /\ prefs = Prefs
    /\ grid = [rows |-> 0, cols |-> prefs.gridCols]
    /\ cells = << >>
    /\ words = << >>
    /\ sentence = << >>
    /\ capture = [active |-> FALSE, startMs |-> 0, wordUnderSpot |-> NoCandidate,
                  progress01 |-> 0, key |-> << >>]
    /\ mouse = [x |-> 0, y |-> 0, down |-> FALSE]
    /\ now = 0
    /\ lastMs = 0
    /\ captured = << >>
    /\ scan = NoScan
    /\ dictionary = DICTIONARY
    /\ trie = EmptyTrie
    /\ trieN = 0
    /\ walk = NoWalk

\* main.js:168-175 and 215-221, onKeyDown with a printable key: input starts
\* if it was not active, and the key is taken unless the buffer is full
KeyPrintable ==
    /\ app.kind = "canvas"
    /\ ~app.active \/ app.buffer < MaxBuffer
    /\ app' = [app EXCEPT !.active = TRUE,
                          !.buffer = IF ~app.active THEN 1 ELSE app.buffer + 1]
    /\ UNCHANGED <<pc, prefs, dictionary, trie, trieN, walk, worldVars, scan>>

\* main.js:208-214, onKeyDown with Backspace
KeyBackspace ==
    /\ app.kind = "canvas"
    /\ app.active
    /\ app.buffer > 0
    /\ app' = [app EXCEPT !.buffer = @ - 1]
    /\ UNCHANGED <<pc, prefs, dictionary, trie, trieN, walk, worldVars, scan>>

\* main.js:203-207 and 177-182, onKeyDown with Escape: cancel()
KeyEscape ==
    /\ app.kind = "canvas"
    /\ app.active
    /\ app' = [app EXCEPT !.active = FALSE, !.buffer = 0]
    /\ UNCHANGED <<pc, prefs, dictionary, trie, trieN, walk, worldVars, scan>>

\* main.js:197-202 and 184-194, onKeyDown with the space key: finalize().
\* An empty buffer cancels; else the entry goes through the plugins, which
\* attach a tick function or none (main.js:269-283, 85-104), and is stored
Finalize ==
    /\ app.kind = "canvas"
    /\ app.active
    /\ IF app.buffer = 0
       THEN app' = [app EXCEPT !.active = FALSE]
       ELSE /\ Len(app.storage) < MaxEntries
            /\ app.issued < MaxFrames
            /\ \E tick \in BOOLEAN :
                  app' = requestAnimationIfNeeded(
                            [app EXCEPT !.storage = Append(@, tick),
                                        !.active = FALSE, !.buffer = 0])
    /\ UNCHANGED <<pc, prefs, dictionary, trie, trieN, walk, worldVars, scan>>

\* docs/text-discovery/main.js:960-972 and 1001-1007, an alt-click on an
\* entry: deleteEntryAtPoint
DeleteEntry ==
    /\ app.kind = "canvas"
    /\ \E i \in 1 .. Len(app.storage) :
          app' = requestAnimationIfNeeded([app EXCEPT !.storage = Splice(@, i)])
    /\ UNCHANGED <<pc, prefs, dictionary, trie, trieN, walk, worldVars, scan>>

\* main.js:302-312, step(nowMs): a scheduled frame callback runs, ticks the
\* entries and requests the next frame
CanvasStep ==
    /\ app.kind = "canvas"
    /\ app.issued < MaxFrames
    /\ \E id \in app.pending :
          app' = requestAnimationFrame([app EXCEPT !.pending = @ \ {id}])
    /\ UNCHANGED <<pc, prefs, dictionary, trie, trieN, walk, worldVars, scan>>

\* main.js:136-141, the resize handler
Resize ==
    /\ app.kind = "canvas"
    /\ now < MaxNow
    /\ now' = now + 1
    /\ app' = IF needsAnimation(app.storage) THEN requestAnimationIfNeeded(app) ELSE app
    /\ UNCHANGED <<pc, prefs, dictionary, trie, trieN, walk, grid, cells, words,
                   sentence, capture, mouse, lastMs, captured, scan>>

CanvasNext ==
    \/ KeyPrintable
    \/ KeyBackspace
    \/ KeyEscape
    \/ Finalize
    \/ DeleteEntry
    \/ CanvasStep
    \/ Resize

SpecCanvas == CanvasInit /\ [][CanvasNext]_vars

\* the two pages side by side: either one is loaded and takes its events
AiAppsInit == AppInit \/ CaptionerInit

AiAppsNext ==
    \/ HandleInput
    \/ AiResponse
    \/ AiError
    \/ ErrorTimeout
    \/ HandleDialChange
    \/ ProcessImage
    \/ ProcessImageBusy
    \/ CaptionResponse
    \/ CaptionError
    \/ CaptionTimeout
    \/ ClearCanvas

SpecAiApps == AiAppsInit /\ [][AiAppsNext]_vars

\* part_001:147-160: an input event is possible now whose text and time meet
\* every condition of sending other than the status
TriggerDue ==
    \E text \in Texts, adv \in 0 .. 1 :
        /\ text # app.state.userText
        /\ now + adv <= MaxNow
        /\ shouldSend(Len(text), endsWithSentence(text), app.state.lastSentAt, now + adv)
        /\ Trim(text) # << >>

\* C36: in the counterpoint app and in the captioner at most one request is
\* outstanding at any time, a trigger while the status is loading sends
\* nothing, and a response leaves the text typed meanwhile as it is.
C36_SingleRequestInFlight ==
    /\ [](app.inflight <= 1)
    /\ [][Busy(app.state) => app'.sent = app.sent]_vars
    /\ [][app'.inflight < app.inflight /\ app.kind = "counterpoint"
            => app'.state.userText = app.state.userText]_vars

(* C27 *)

\* C27: counterpoint hint -- once the hint has been hidden by the first
\* keystroke it stays hidden for the rest of the session, whatever edits
\* follow, those that make the text empty or blank again included: no step
\* takes the hint from hidden to shown.
\* Stated as the claim states it; the app violates it.
C27_HintStaysHidden ==
    [][app.hintDisplay = "none" => app'.hintDisplay = "none"]_vars

---------------------------------------------------------------------------
(* Commits on a row of three cells while words are being seeded *)

\* the row of three cells with the seeder at work and no cosmetic mutation
ReleasePrefs ==
    [TiePrefs EXCEPT !.seedWordsPerMinute = 120, !.minActiveWords = 1]

ReleaseInit ==
    /\ app = AppLoaded
    /\ pc = NoPass
    /\ prefs = ReleasePrefs
    /\ dictionary = TieDictionary
    /\ createWorld(1)
    /\ captured = << >>
    /\ walk = NoWalk
    /\ scan = NoScan

SpecRelease == ReleaseInit /\ [][Next]_vars

\* the cell indices of a candidate
CandIdx(cand) == { cand.cells[i].idx : i \in 1 .. Len(cand.cells) }

(* C28 *)

\* C28: commit effects -- immediately after a commit every cell of the
\* committed candidate is unlocked, fading out and without a staged
\* character (its letter and fade fraction as the frame's grid update and
\* seeding left them); the cells outside the candidate are as the frame's
\* grid update and seeding left them (locked flag, fade state and staged
\* character kept); exactly the held candidate's word has been appended to
\* the sentence (the oldest entry leaving when the cap is exceeded); and the
\* capture state is idle: inactive, no frozen candidate, empty key,
\* progress 0.
C28_CommitEffects ==
    [][Commit =>
         LET cand == capture.wordUnderSpot
             dt   == Min2(DtCap, now' - lastMs)
         IN  /\ capture.active
             /\ \A idx \in CandIdx(cand) :
                   /\ ~cells'[idx].locked
                   /\ cells'[idx].fadeDir = -1
                   /\ cells'[idx].nextChar = None
             /\ \E cs1 \in updateLetters(cells, dt, now') :
                   \E s \in ensureWordSeeding(cs1, words, dt) :
                       /\ \A idx \in DOMAIN cells \ CandIdx(cand) :
                             cells'[idx] = s.cells[idx]
                       /\ \A idx \in CandIdx(cand) :
                             /\ cells'[idx].char = s.cells[idx].char
                             /\ cells'[idx].fadeT = s.cells[idx].fadeT
             /\ captured' = Append(captured, cand.word)
             /\ sentence' = LastN(Append(sentence, cand.word),
                                  Min2(Len(sentence) + 1, prefs.maxSentenceWords))
             /\ capture' = [capture EXCEPT !.active = FALSE,
                                           !.wordUnderSpot = NoCandidate,
                                           !.key = << >>, !.progress01 = 0]]_vars

\* just after a commit that released a cell of a seeded word while a cell
\* outside the candidate stays locked with its letter staged
C28_Witness ==
    /\ Len(captured) = 1
    /\ ~capture.active
    /\ capture.wordUnderSpot = NoCandidate
    /\ sentence = captured
    /\ \E idx \in DOMAIN cells :
          /\ cells[idx].locked
          /\ cells[idx].nextChar # None
    /\ \E i \in 1 .. Len(words) :
          \E k \in 1 .. Len(words[i].cells) :
              LET c == cells[words[i].cells[k].idx]
              IN  ~c.locked /\ c.fadeDir = -1 /\ c.nextChar = None /\ c.fadeT = FadeMax

---------------------------------------------------------------------------
(* C29 *)

\* C29: captured once -- after a candidate has been committed, the same
\* candidate identity (same word over the same cells, still showing the
\* letters it showed before the capture) is not committed a second time,
\* even if the button stays down across the commit.  On the row of two cells
\* a word has one place, so the word is the identity; the cells of the
\* candidate being unlocked, fading out and showing the candidate's letters
\* before the frame, they are the ones the earlier commit released.
\* Stated as the claim states it; the sketch violates it.
C29_CapturedOnce ==
    [][Commit =>
         LET cand == capture.wordUnderSpot
         IN  ~ /\ \E i \in 1 .. Len(captured) : captured[i] = cand.word
               /\ \A k \in 1 .. Len(cand.cells) :
                     LET c == cells[cand.cells[k].idx]
                     IN  /\ ~c.locked
                         /\ c.fadeDir = -1
                         /\ c.fadeT >= prefs.detectionAlphaThreshold
                         /\ c.char = cand.cells[k].ch]_vars

---------------------------------------------------------------------------
(* C30 *)

\* C30: camouflage -- the character a cell shows changes only in a frame
\* whose grid update brings the cell's fade fraction to 0 while it fades out
\* (the cell was fading out before the frame and its fraction is 0 after
\* it); it never changes at a fraction above 0, whether a word is seeded onto
\* the cell, its word is evicted or a capture releases it.  In such a frame a
\* staged character is the one applied, and it is cleared: the cell holds no
\* staged character afterwards unless the frame's seeding staged a new one.
C30_Camouflage ==
    [][\A idx \in DOMAIN cells :
          /\ cells'[idx].char # cells[idx].char =>
                /\ Frame
                /\ cells[idx].fadeDir = -1
                /\ cells'[idx].fadeT = 0
          /\ (Frame /\ cells[idx].fadeDir = -1 /\ cells'[idx].fadeT = 0) =>
                /\ cells[idx].nextChar # None => cells'[idx].char = cells[idx].nextChar
                /\ \/ cells'[idx].nextChar = None
                   \/ /\ cells'[idx].locked
                      /\ cells'[idx].fadeDir = -1
                      /\ words' # words]_vars

\* a cell of a seeded word just after its staged letter was applied: locked,
\* invisible, fading in, nothing staged, showing its word's letter
C30_Witness ==
    \E i \in 1 .. Len(words) :
        \E k \in 1 .. Len(words[i].cells) :
            LET c == cells[words[i].cells[k].idx]
            IN  /\ c.locked
                /\ c.fadeT = 0
                /\ c.fadeDir = 1
                /\ c.nextChar = None
                /\ c.char = words[i].word[k]

---------------------------------------------------------------------------
(* C31 *)

\* C31: placed runs are straight and in bounds -- every PlacedWord of the
\* active set has exactly len(word) cells, each within the grid with the
\* index of its row and column; the cells of a horizontal word lie in the
\* word's row at consecutive columns from its origin, those of a vertical
\* word in its column at consecutive rows: no run wraps across a row
\* boundary or leaves the grid.
C31_PlacedRunsStraight ==
    \A i \in 1 .. Len(words) :
        LET w == words[i]
        IN  /\ Len(w.cells) = Len(w.word)
            /\ \A k \in 1 .. Len(w.cells) :
                  LET p == w.cells[k]
                  IN  /\ p.r >= 0 /\ p.r < grid.rows
                      /\ p.c >= 0 /\ p.c < grid.cols
                      /\ p.idx = p.r * grid.cols + p.c
                      /\ p.idx \in DOMAIN cells
                      /\ w.dir = "H" => (p.r = w.r /\ p.c = w.c + k - 1)
                      /\ w.dir = "V" => (p.c = w.c /\ p.r = w.r + k - 1)
                      /\ w.dir \in {"H", "V"}

\* a call has just placed a word of two letters down a column (its letters
\* are still staged) beside a word lying along a row
C31_Witness ==
    /\ \E i \in 1 .. Len(words) :
          /\ words[i].dir = "V"
          /\ Len(words[i].word) = 2
          /\ \A k \in 1 .. 2 : cells[words[i].cells[k].idx].nextChar = words[i].word[k]
    /\ \E i \in 1 .. Len(words) : words[i].dir = "H"

---------------------------------------------------------------------------
(* C32 *)

\* the union of the cell sets of the words of a list
CellsOf(ws) == UNION { CellSet(ws[i]) : i \in 1 .. Len(ws) }

\* C32: eviction is oldest-first and local -- in a seeding pass that finds
\* the active set above its maximum, the words removed are the earliest
\* placed ones; the remaining words keep their relative order (they open the
\* list after the pass); exactly the cells of the removed words are unlocked
\* (but for those a placement of the same pass locks again); every other
\* cell keeps its locked flag (but for those a placement of the same pass
\* locks); and every cell shows the character it showed.
C32_EvictionOldestFirst ==
    [][now' # now =>
         LET n       == Len(words) - Survivors
             kept    == SubSeq(words, n + 1, Len(words))
             evicted == CellsOf(SubSeq(words, 1, n))
             new     == CellsOf(SubSeq(words', Len(kept) + 1, Len(words')))
         IN  /\ Len(words') >= Len(kept)
             /\ SubSeq(words', 1, Len(kept)) = kept
             /\ \A idx \in DOMAIN cells :
                   /\ cells'[idx].char = cells[idx].char
                   /\ (idx \in evicted \ new) => ~cells'[idx].locked
                   /\ (idx \notin evicted \cup new) =>
                          cells'[idx].locked = cells[idx].locked]_vars

\* after a pass that evicted the word "ab" and kept a later one: the cell
\* showing "b" is unlocked and steady
C32_Witness ==
    /\ now = 1
    /\ Len(words) >= 1
    /\ \E idx \in DOMAIN cells :
          /\ cells[idx].char = "b"
          /\ ~cells[idx].locked
          /\ cells[idx].nextChar = None
    /\ \E idx \in DOMAIN cells : cells[idx].locked

---------------------------------------------------------------------------
(* Frames without end.  The sketch reads the clock only in differences     *)
(* (t >= nextAt, t + delay, t - lastMs), so the time origin is moved to    *)
(* each frame's timestamp: now and lastMs stay 0 and every nextAt is kept  *)
(* relative to the last frame, a deadline that has passed being kept as 0. *)

\* the cells with the time origin moved forward by d
Rebase(cs, d) == [idx \in DOMAIN cs |-> [cs[idx] EXCEPT !.nextAt = Max2(0, @ - d)]]

\* main.js:536-544: one animation frame, adv ticks after the last one, the
\* button being up
StepLive ==
    \E adv \in 1 .. MaxAdv :
        LET dt == Min2(DtCap, adv)
        IN  \E u \in FrameOutcomes(cells, words, sentence, capture, mouse, dt, adv) :
                /\ cells' = Rebase(u.cells, adv)
                /\ words' = u.words
                /\ sentence' = u.sentence
                /\ capture' = u.capture
                /\ captured' = captured \o u.done
                /\ UNCHANGED <<pc, app, prefs, dictionary, trie, trieN, walk, grid, mouse,
                               now, lastMs, scan>>

\* every fade and every wait between mutations lasts one tick
LivePrefs == [Prefs EXCEPT !.fadeDurationRangeSec = <<1, 1>>]

LiveInit ==
    /\ app = AppLoaded
    /\ pc = NoPass
    /\ prefs = LivePrefs
    /\ dictionary = DICTIONARY
    /\ createWorld(1)
    /\ captured = << >>
    /\ walk = NoWalk
    /\ scan = NoScan

\* frames keep arriving
SpecLive == LiveInit /\ [][StepLive]_vars /\ WF_vars(StepLive)

\* every cell of the word is steady at fade fraction 1 showing its letter
Readable(w) ==
    \A k \in 1 .. Len(w.cells) :
        LET c == cells[w.cells[k].idx]
        IN  c.fadeDir = 0 /\ c.fadeT = FadeMax /\ c.char = w.word[k]

(* C33 *)

\* C33: seeded letters eventually appear -- after a successful placement, if
\* frames keep arriving with positive dt and none of the word's cells is
\* captured or taken by another placement (here the button is never pressed
\* and the active set never exceeds its maximum, so a placed word stays the
\* first of the list), eventually every cell of the word is steady at fade
\* fraction 1 showing its letter: the placed word becomes readable.
C33_SeededLettersAppear ==
    (Len(words) >= 1) ~> (Len(words) >= 1 /\ Readable(words[1]))

\* a placed word that has become readable where another string stood
C33_Witness ==
    /\ Len(words) >= 1
    /\ Readable(words[1])
    /\ \A k \in 1 .. Len(words[1].cells) : cells[words[1].cells[k].idx].locked
    /\ words[1].word = <<"b", "a">>

---------------------------------------------------------------------------
(* A seeding pass and a scan taken loop by loop: every turn of a loop of   *)
(* ensureWordSeeding, seedOneWord and scanLine is a step, pc telling where *)
(* the frame stands.                                                       *)

\* <<minActiveWords, maxActiveWords>>; prefs is an object the page can write
\* (main.js:573), so the maximum may be below the minimum, absent (0) or
\* negative
PassPopulations == { <<0, 1>>, <<1, 2>>, <<2, 1>>, <<3, 0>>, <<0, -1>> }

\* the heights of the grid tried: a one-row grid has no room for a vertical
\* word of two letters
PassRows == {1, 2}

\* a steady grid holding any list of placed words, at the start of
\* ensureWordSeeding
PassInit ==
    /\ app = AppLoaded
    /\ pc = [NoPass EXCEPT !.at = "evict"]
    /\ \E pop \in PassPopulations : prefs = SeedPrefs(<<1, 2>>, pop)
    /\ dictionary = SeedDictionary
    /\ trie = buildTrie(dictionary)
    /\ trieN = Len(dictionary)
    /\ walk = NoWalk
    /\ \E rows \in PassRows : grid = [rows |-> rows, cols |-> prefs.gridCols]
    /\ words \in PlacedLists
    /\ cells = [idx \in 0 .. (grid.rows * grid.cols - 1) |->
                  [char |-> ShownLetter(words, idx), fadeT |-> FadeMax, fadeDir |-> 0,
                   nextAt |-> prefs.fadeDurationRangeSec[1],
                   locked |-> \E i \in 1 .. Len(words) :
                                 \E k \in 1 .. Len(words[i].cells) :
                                     words[i].cells[k].idx = idx,
                   nextChar |-> None]]
    /\ sentence = << >>
    /\ capture = [active |-> FALSE, startMs |-> 0, wordUnderSpot |-> NoCandidate,
                  progress01 |-> 0, key |-> << >>]
    /\ mouse = [x |-> (grid.cols * CellW) \div 2, y |-> (grid.rows * CellH) \div 2,
                down |-> FALSE]
    /\ now = 0
    /\ lastMs = 0
    /\ captured = << >>
    /\ scan = NoScan

\* main.js:178: world.words.length > (prefs.maxActiveWords || Infinity)
AboveMax(ws) == prefs.maxActiveWords # 0 /\ Len(ws) > prefs.maxActiveWords

\* main.js:189: world.words.length < (prefs.maxActiveWords || Infinity)
BelowMax(ws) == prefs.maxActiveWords = 0 \/ Len(ws) < prefs.maxActiveWords

\* main.js:184 with the guard counter left out
FillDueUnguarded(ws, guard) == Len(ws) < prefs.minActiveWords

\* main.js:184: world.words.length < (prefs.minActiveWords || 0) && guard++ < 20
FillDue(ws, guard) == Len(ws) < prefs.minActiveWords /\ guard < GuardMax

\* main.js:178-180: one turn of the eviction loop
EvictIter ==
    /\ pc.at = "evict"
    /\ AboveMax(words)
    /\ LET d == dropOldestWord(cells, words)
       IN  cells' = d.cells /\ words' = d.words
    /\ UNCHANGED <<pc, app, prefs, dictionary, trie, trieN, walk, grid, sentence,
                   capture, mouse, now, lastMs, captured, scan>>

\* main.js:178, 183: the eviction loop is left
EvictDone ==
    /\ pc.at = "evict"
    /\ ~AboveMax(words)
    /\ pc' = [pc EXCEPT !.at = "fill", !.guard = 0]
    /\ UNCHANGED <<app, prefs, dictionary, trie, trieN, walk, worldVars, scan>>

\* main.js:184-185, 195: one turn of the minimum-fill loop calls seedOneWord
FillIter ==
    /\ pc.at = "fill"
    /\ FillDue(words, pc.guard)
    /\ \E word \in chooseWord :
          pc' = [pc EXCEPT !.at = "attempt", !.guard = @ + 1, !.a = 0,
                           !.word = word, !.back = "fill"]
    /\ UNCHANGED <<app, prefs, dictionary, trie, trieN, walk, worldVars, scan>>

\* main.js:184: the minimum-fill loop is left by its test
FillDone ==
    /\ pc.at = "fill"
    /\ ~FillDue(words, pc.guard)
    /\ pc' = [pc EXCEPT !.at = "extra"]
    /\ UNCHANGED <<app, prefs, dictionary, trie, trieN, walk, worldVars, scan>>

\* main.js:187-191: the extra seeding is drawn
ExtraIter ==
    /\ pc.at = "extra"
    /\ BelowMax(words)
    /\ prefs.seedWordsPerMinute * DtCap > 0
    /\ \E word \in chooseWord :
          pc' = [pc EXCEPT !.at = "attempt", !.a = 0, !.word = word, !.back = "extra"]
    /\ UNCHANGED <<app, prefs, dictionary, trie, trieN, walk, worldVars, scan>>

\* main.js:189: the extra seeding is not drawn; on to the scan (main.js:313)
ExtraSkip ==
    /\ pc.at = "extra"
    /\ pc' = [pc EXCEPT !.at = "scan", !.r = 0, !.c = 0]
    /\ UNCHANGED <<app, prefs, dictionary, trie, trieN, walk, worldVars, scan>>

\* where seedOneWord returns to: the minimum-fill loop goes on after a
\* placement and breaks after a failure (main.js:185); the extra seeding is
\* followed by the scan
Return(ok) ==
    [pc EXCEPT !.at = IF pc.back = "fill" THEN (IF ok THEN "fill" ELSE "extra")
                      ELSE "scan",
               !.r = 0, !.c = 0]

\* main.js:197-248: one turn of the loop over the attempts
Attempt ==
    /\ pc.at = "attempt"
    /\ pc.a < Attempts
    /\ \E dir \in {"H", "V"} :
          LET len      == Len(pc.word)
              maxStart == IF dir = "H" THEN grid.cols - len ELSE grid.rows - len
              lines    == IF dir = "H" THEN grid.rows ELSE grid.cols
          IN  IF TooSmall(maxStart)
              THEN /\ pc' = Return(FALSE)
                   /\ UNCHANGED <<cells, words>>
              ELSE \E line \in 0 .. (lines - 1), start \in StartRange(maxStart) :
                       LET r == IF dir = "H" THEN line ELSE start
                           c == IF dir = "H" THEN start ELSE line
                       IN  IF placementFree(cells, r, c, len, dir)
                           THEN /\ cells' = PlaceCells(cells, pc.word, r, c, dir)
                                /\ words' = Append(words, PlacedWord(pc.word, r, c, dir))
                                /\ pc' = Return(TRUE)
                           ELSE /\ pc' = [pc EXCEPT !.a = @ + 1]
                                /\ UNCHANGED <<cells, words>>
    /\ UNCHANGED <<app, prefs, dictionary, trie, trieN, walk, grid, sentence,
                   capture, mouse, now, lastMs, captured, scan>>

\* main.js:197, 250: the attempts are used up
AttemptsOut ==
    /\ pc.at = "attempt"
    /\ pc.a >= Attempts
    /\ pc' = Return(FALSE)
    /\ UNCHANGED <<app, prefs, dictionary, trie, trieN, walk, worldVars, scan>>

\* main.js:340-344: the column after the run of included cells from (r, c)
RECURSIVE SegEnd(_, _)
SegEnd(r, c) ==
    IF inBounds(r, c) /\ Include(cells, mouse)[getCellIndex(r, c)]
    THEN SegEnd(r, c + 1) ELSE c

\* main.js:337-347: one turn of the outer loop of scanLine along row pc.r
ScanIter ==
    /\ pc.at = "scan"
    /\ inBounds(pc.r, pc.c)
    /\ pc' = [pc EXCEPT !.c = SegEnd(pc.r, pc.c) + 1]
    /\ UNCHANGED <<app, prefs, dictionary, trie, trieN, walk, worldVars, scan>>

\* main.js:313-315, 337: the row is finished; the next row, or the end
ScanRowEnd ==
    /\ pc.at = "scan"
    /\ ~inBounds(pc.r, pc.c)
    /\ pc' = IF pc.r + 1 < grid.rows
             THEN [pc EXCEPT !.r = @ + 1, !.c = 0]
             ELSE [pc EXCEPT !.at = "done"]
    /\ UNCHANGED <<app, prefs, dictionary, trie, trieN, walk, worldVars, scan>>

PassNext ==
    \/ EvictIter \/ EvictDone \/ FillIter \/ FillDone \/ ExtraIter \/ ExtraSkip
    \/ Attempt \/ AttemptsOut \/ ScanIter \/ ScanRowEnd

\* the frame keeps running while it has a step to take
SpecPass == PassInit /\ [][PassNext]_vars /\ WF_vars(PassNext)

\* what the loops do in every configuration: the counters stay within their
\* limits, a failed placement ends the minimum-fill loop, and a turn of the
\* scan moves on along its row or to the next row
LoopsBounded ==
    /\ [](pc.guard <= GuardMax /\ pc.a <= Attempts)
    /\ [][(pc.at = "attempt" /\ pc.back = "fill" /\ pc'.at # "attempt" /\ words' = words)
             => pc'.at = "extra"]_vars
    /\ [][(pc.at = "scan" /\ pc'.at = "scan")
             => (pc'.r > pc.r \/ (pc'.r = pc.r /\ pc'.c > pc.c))]_vars

(* C34 *)

---------------------------------------------------------------------------
(* C35 *)

\* the grid has no room for the word in either orientation
NoRoom(word) == grid.cols < Len(word) /\ grid.rows < Len(word)

\* C35: when placement fails -- seedOneWord returns no placement only after
\* exhausting all of its attempts or when the grid has no room for the
\* chosen word in either orientation; it does not give up while an
\* orientation in which the word fits remains and attempts remain.
\* Stated as the claim states it; the sketch violates it.
C35_FailureOnlyWhenExhausted ==
    [][(pc.at = "attempt" /\ pc'.at # "attempt" /\ words' = words)
          => (pc.a >= Attempts \/ NoRoom(pc.word))]_vars


C38_ConditionalLoop ==
    /\ (app.animationHandle # NoHandle) <=> needsAnimation(app.storage)
    /\ Cardinality(app.pending) <= 1
    /\ app.pending = IF app.animationHandle = NoHandle THEN {} ELSE {app.animationHandle}

\* C38: frames have run, an animated entry and a still one are stored, and
\* the loop is scheduled
C38_Witness ==
    /\ app.issued >= 3
    /\ Len(app.storage) = 2
    /\ app.storage[1] # app.storage[2]
    /\ app.pending # {}


---------------------------------------------------------------------------
(* A dictionary with a word below minWordLength, and a short hold *)

\* "a" is in the dictionary and shorter than minWordLength = 2
MixedDictionary == << <<"a">>, <<"a", "b">>, <<"b", "a">> >>

MixedInit ==
    /\ app = AppLoaded
    /\ pc = NoPass
    /\ prefs = QuickPrefs
    /\ dictionary = MixedDictionary
    /\ createWorld(1)
    /\ captured = << >>
    /\ walk = NoWalk
    /\ scan = NoScan

SpecMixed == MixedInit /\ [][Next]_vars

(* C39 *)

\* cand's cells are a run along one row, left to right and without a gap,
\* each within the spotlight of m and visible in cs, showing cand's letters
HorizontalRun(cand, cs, m) ==
    /\ Len(cand.word) >= 1
    /\ Len(cand.cells) = Len(cand.word)
    /\ \A i \in 1 .. Len(cand.cells) :
          /\ cand.cells[i].r = cand.cells[1].r
          /\ cand.cells[i].c = cand.cells[1].c + (i - 1)
          /\ cand.cells[i].idx = getCellIndex(cand.cells[i].r, cand.cells[i].c)
          /\ Include(cs, m)[cand.cells[i].idx]
          /\ cs[cand.cells[i].idx].char = cand.word[i]

=============================================================================
